---- MODULE Spec2Model ----
(***************************************************************************)
(* A model of the mini blockchain node: transactions and the UTXO walk     *)
(* (core/transaction, core/utxo), blocks and the Merkle root (core/block,  *)
(* core/merkle), the bbolt chain store (core/blockchain, core/iterator)    *)
(* and the gossip / RPC handlers of the network package.                   *)
(*                                                                         *)
(* Byte strings are modelled symbolically.  The empty (or nil) byte string *)
(* is Nil; gob transmits neither, so the two are the same value here.      *)
(* SHA-256 is a collision-free constructor: SHA256(x) = [sha |-> x].       *)
(***************************************************************************)
EXTENDS Integers, Sequences, FiniteSets, Bags, TLC

\* ---------------------------------------------------------------- bounds
\* Blocks mined by sendtx handlers over the whole run (genesis excluded).
MaxMined == 2

\* ------------------------------------------------------ program constants
subsidy == 10
protocolVersion == 1
targetBits == 24
knownNodes == <<"localhost:3000", "localhost:3001", "localhost:3002">>

Nil == <<>>

\* The addresses stored in wallets.dat, shared by the nodes of one folder.
WalletAddrs == {"A", "B"}

\* ------------------------------------------------------------- primitives
SHA256(x) == [sha |-> x]

\* wallet.Wallet.PublicKey of the wallet stored under address a.
PublicKey(a) == [pub |-> a]

\* RIPEMD-160(SHA-256(pubKey)).
HashPubKey(pubKey) == [pkh |-> pubKey]

\* The well-formed addresses: Base58Check(version, pkh, checksum) of a key,
\* whether or not wallets.dat holds that key.
ValidAddrs == WalletAddrs \cup {"C"}

ValidateAddress(address) == address \in ValidAddrs

PubKeyHashFromAddress(address) ==
    IF address \in ValidAddrs THEN HashPubKey(PublicKey(address)) ELSE Nil

\* ecdsa.SignASN1 with the private key of wallet `signer` over digest.
SignASN1(signer, digest) == [signer |-> signer, msg |-> digest]

\* ecdsa.VerifyASN1 after elliptic.Unmarshal of the input's public key.
VerifyASN1(pubKey, digest, sig) ==
    /\ sig # Nil
    /\ pubKey = PublicKey(sig.signer)
    /\ sig.msg = digest

\* hex.EncodeToString / hex.DecodeString, used for map keys.
HexEncode(bytes) == [hex |-> bytes]
HexDecode(str) == str.hex

\* Sequence helpers.
RECURSIVE SeqSum(_)
SeqSum(s) == IF s = <<>> THEN 0 ELSE Head(s) + SeqSum(Tail(s))

RECURSIVE Reverse(_)
Reverse(s) == IF s = <<>> THEN <<>> ELSE Append(Reverse(Tail(s)), Head(s))

RECURSIVE Flatten(_)
Flatten(ss) == IF ss = <<>> THEN <<>> ELSE Head(ss) \o Flatten(Tail(ss))

Range(s) == {s[i] : i \in DOMAIN s}

\* Go maps with slice values: a missing key reads as the nil slice.
MapGet(m, k) == IF k \in DOMAIN m THEN m[k] ELSE <<>>
MapAppend(m, k, v) ==
    [x \in DOMAIN m \cup {k} |-> IF x = k THEN Append(MapGet(m, k), v) ELSE m[x]]
EmptyMap == [x \in {} |-> <<>>]

\* ----------------------------------------------------------- transactions
\* A transaction is [ID, Vin, Vout]; an input is [Txid, Vout, Signature,
\* PubKey] with a 0-based Vout; an output is [Value, PubKeyHash].

UsesKey(in, pubKeyHash) == HashPubKey(in.PubKey) = pubKeyHash

IsLockedWithKey(out, pubKeyHash) == out.PubKeyHash = pubKeyHash

IsCoinbase(tx) ==
    Len(tx.Vin) = 1 /\ tx.Vin[1].Txid = Nil /\ tx.Vin[1].Vout = -1

SerializeTx(tx) == [gob |-> tx]

\* A hash taken over the transaction as it stands, ID included.
HashKeepsID(tx) == SHA256(SerializeTx(tx))

Hash(tx) == SHA256(SerializeTx([tx EXCEPT !.ID = Nil]))

CoinbaseData(to, data) ==
    IF data = "" THEN [data |-> "Coinbase to", to |-> to]
    ELSE [data |-> data, to |-> ""]

CoinbaseTx(to, data) ==
    LET txin  == [Txid |-> Nil, Vout |-> -1, Signature |-> Nil,
                  PubKey |-> CoinbaseData(to, data)]
        txout == [Value |-> subsidy, PubKeyHash |-> PubKeyHashFromAddress(to)]
        tx    == [ID |-> Nil, Vin |-> <<txin>>, Vout |-> <<txout>>]
    IN [tx EXCEPT !.ID = Hash(tx)]

TrimmedCopy(tx) ==
    [ID   |-> tx.ID,
     Vin  |-> [i \in DOMAIN tx.Vin |->
                 [Txid |-> tx.Vin[i].Txid, Vout |-> tx.Vin[i].Vout,
                  Signature |-> Nil, PubKey |-> Nil]],
     Vout |-> tx.Vout]

\* prevTXs is a Go map from hex id to Transaction; a missing key reads as
\* the zero Transaction, whose ID is nil.
ZeroTx == [ID |-> Nil, Vin |-> <<>>, Vout |-> <<>>]
PrevTxOf(prevTXs, txid) ==
    IF HexEncode(txid) \in DOMAIN prevTXs THEN prevTXs[HexEncode(txid)] ELSE ZeroTx

\* The digest signed for input inID: the hash of the trimmed copy whose
\* inID-th PubKey holds the PubKeyHash of the referenced output.
SigDigest(tx, inID, prevTXs) ==
    LET txCopy == TrimmedCopy(tx)
        vin    == txCopy.Vin[inID]
        prevTx == PrevTxOf(prevTXs, vin.Txid)
    IN Hash([txCopy EXCEPT !.Vin[inID].PubKey = prevTx.Vout[vin.Vout + 1].PubKeyHash])

\* Sign and Verify panic when a previous transaction is missing, or index
\* out of range when the referenced output does not exist.
PrevMissing(tx, prevTXs) ==
    \E i \in DOMAIN tx.Vin :
        \/ PrevTxOf(prevTXs, tx.Vin[i].Txid).ID = Nil
        \/ tx.Vin[i].Vout + 1 \notin DOMAIN PrevTxOf(prevTXs, tx.Vin[i].Txid).Vout

\* Sign over the hash of the trimmed copy as it stands, without the
\* PubKeyHash of the referenced output in the input being signed.
SignBarePreimage(tx, signer, prevTXs) ==
    IF IsCoinbase(tx) THEN [panic |-> FALSE, tx |-> tx]
    ELSE IF PrevMissing(tx, prevTXs) THEN [panic |-> TRUE, tx |-> tx]
    ELSE [panic |-> FALSE,
          tx |-> [tx EXCEPT !.Vin = [i \in DOMAIN tx.Vin |->
                     [tx.Vin[i] EXCEPT !.Signature =
                         SignASN1(signer, Hash(TrimmedCopy(tx)))]]]]

\* Sign that recomputes the ID over the signed transaction.
SignRehash(tx, signer, prevTXs) ==
    LET Rehash(signed) == [signed EXCEPT !.ID = Hash(signed)]
    IN IF IsCoinbase(tx) THEN [panic |-> FALSE, tx |-> tx]
       ELSE IF PrevMissing(tx, prevTXs) THEN [panic |-> TRUE, tx |-> tx]
       ELSE [panic |-> FALSE,
             tx |-> Rehash([tx EXCEPT !.Vin = [i \in DOMAIN tx.Vin |->
                        [tx.Vin[i] EXCEPT !.Signature =
                            SignASN1(signer, SigDigest(tx, i, prevTXs))]]])]

Sign(tx, signer, prevTXs) ==
    IF IsCoinbase(tx) THEN [panic |-> FALSE, tx |-> tx]
    ELSE IF PrevMissing(tx, prevTXs) THEN [panic |-> TRUE, tx |-> tx]
    ELSE [panic |-> FALSE,
          tx |-> [tx EXCEPT !.Vin = [i \in DOMAIN tx.Vin |->
                     [tx.Vin[i] EXCEPT !.Signature =
                         SignASN1(signer, SigDigest(tx, i, prevTXs))]]]]

Verify(tx, prevTXs) ==
    IF IsCoinbase(tx) THEN [panic |-> FALSE, ok |-> TRUE]
    ELSE IF PrevMissing(tx, prevTXs) THEN [panic |-> TRUE, ok |-> FALSE]
    ELSE [panic |-> FALSE,
          ok |-> \A i \in DOMAIN tx.Vin :
                    VerifyASN1(tx.Vin[i].PubKey, SigDigest(tx, i, prevTXs),
                               tx.Vin[i].Signature)]

\* ----------------------------------------------------------------- merkle
\* An inner node that hashes its children right before left.
NewMerkleNodeSwapped(left, right, data) ==
    IF left = Nil /\ right = Nil THEN SHA256(data)
    ELSE SHA256([l |-> right, r |-> left])

NewMerkleNode(left, right, data) ==
    IF left = Nil /\ right = Nil THEN SHA256(data)
    ELSE SHA256([l |-> left, r |-> right])

RECURSIVE MerkleLevel(_)
MerkleLevel(nodes) ==
    IF Len(nodes) <= 1 THEN nodes
    ELSE LET even == IF Len(nodes) % 2 # 0
                     THEN Append(nodes, nodes[Len(nodes)]) ELSE nodes
             newLevel == [i \in 1..(Len(even) \div 2) |->
                            NewMerkleNode(even[2 * i - 1], even[2 * i], Nil)]
         IN MerkleLevel(newLevel)

\* The Data of the root node of NewMerkleTree(data).
NewMerkleTree(data) ==
    IF Len(data) = 0 THEN NewMerkleNode(Nil, Nil, SHA256(Nil))
    ELSE MerkleLevel([i \in DOMAIN data |-> NewMerkleNode(Nil, Nil, data[i])])[1]

\* ----------------------------------------------------------------- blocks
HashTransactions(transactions) ==
    NewMerkleTree([i \in DOMAIN transactions |-> transactions[i].ID])

\* ProofOfWork.Run: the first nonce whose hash meets the target; every
\* symbolic digest is taken to meet it at the nonce recorded.
PowRun(block) ==
    [Nonce |-> 0,
     Hash  |-> SHA256([prev |-> block.PrevBlockHash, merkle |-> block.MerkleRoot,
                       ts |-> block.Timestamp, bits |-> targetBits, nonce |-> 0])]

MineBlock(timestamp, transactions, prevBlockHash) ==
    LET block == [Timestamp |-> timestamp, Transactions |-> transactions,
                  PrevBlockHash |-> prevBlockHash, Hash |-> Nil, Nonce |-> 0,
                  MerkleRoot |-> HashTransactions(transactions)]
        pow == PowRun(block)
    IN [block EXCEPT !.Nonce = pow.Nonce, !.Hash = pow.Hash]

\* NewBlock stamps the block with time.Now().Unix().
NewBlock(transactions, prevBlockHash, timeNow) ==
    MineBlock(timeNow, transactions, prevBlockHash)

NewGenesisBlock(coinbase) == MineBlock(0, <<coinbase>>, Nil)

Serialize(block) == [gob |-> block]
DeserializeBlock(data) == data.gob

\* ------------------------------------------------------------ chain store
\* The store of one node is [blocks, l, tip]: the bucket's block entries
\* (hash -> serialized block), the value under lastHashKey, and the tip
\* field of the node's in-memory Blockchain handle.

\* The blocks returned by successive BlockchainIterator.Next() calls, from
\* currentHash until Next returns nil.
RECURSIVE IterBlocks(_, _)
IterBlocks(bm, currentHash) ==
    IF currentHash = Nil \/ currentHash \notin DOMAIN bm THEN <<>>
    ELSE LET block == DeserializeBlock(bm[currentHash])
         IN <<block>> \o IterBlocks(bm, block.PrevBlockHash)

\* A walk that uses the block without a nil check dereferences nil when
\* Next returns nil before a block with empty PrevBlockHash was met.
WalkHitsNil(bm, tip) ==
    LET EndsEarly(walk) == walk = <<>> \/ walk[Len(walk)].PrevBlockHash # Nil
    IN EndsEarly(IterBlocks(bm, tip))

BestHeight(bm, tip) ==
    IF tip = Nil THEN 0 ELSE Len(IterBlocks(bm, tip))

\* GetBlockHashes that lists every stored block.
GetBlockHashesOfBucket(bm, tip) ==
    IF tip = Nil THEN <<>>
    ELSE LET HashesOf(walk) == Reverse([i \in DOMAIN walk |-> walk[i].Hash])
             RECURSIVE Others(_)
             Others(hs) == IF hs = {} THEN <<>>
                           ELSE LET h == CHOOSE x \in hs : TRUE
                                IN <<h>> \o Others(hs \ {h})
         IN Others(DOMAIN bm \ Range(HashesOf(IterBlocks(bm, tip))))
            \o HashesOf(IterBlocks(bm, tip))

GetBlockHashes(bm, tip) ==
    IF tip = Nil THEN <<>>
    ELSE LET HashesOf(walk) == Reverse([i \in DOMAIN walk |-> walk[i].Hash])
         IN HashesOf(IterBlocks(bm, tip))

HasBlock(bm, hash) == hash \in DOMAIN bm

GetBlock(bm, hash) ==
    IF hash \in DOMAIN bm THEN [err |-> "", data |-> bm[hash]]
    ELSE [err |-> "block not found", data |-> Nil]

BucketPut(bm, key, value) ==
    [k \in DOMAIN bm \cup {key} |-> IF k = key THEN value ELSE bm[k]]

\* PutBlock without the linear-extension rule: every block becomes the tip.
PutBlockAnyParent(st, blockData) ==
    LET block  == DeserializeBlock(blockData)
        stored == IF block.Hash \notin DOMAIN st.blocks
                  THEN BucketPut(st.blocks, block.Hash, blockData)
                  ELSE st.blocks
    IN [blocks |-> stored, l |-> block.Hash, tip |-> block.Hash]

\* PutBlock that advances the persisted tip and forgets the handle's tip.
PutBlockStaleHandle(st, blockData) ==
    LET block  == DeserializeBlock(blockData)
        stored == IF block.Hash \notin DOMAIN st.blocks
                  THEN BucketPut(st.blocks, block.Hash, blockData)
                  ELSE st.blocks
    IN IF st.l = Nil
       THEN [blocks |-> stored, l |-> block.Hash, tip |-> block.Hash]
       ELSE IF block.PrevBlockHash = st.l
       THEN [blocks |-> stored, l |-> block.Hash, tip |-> st.tip]
       ELSE [blocks |-> stored, l |-> st.l, tip |-> st.tip]

\* PutBlock that adopts a first block only if it is a genesis block.
PutBlockGenesisFirst(st, blockData) ==
    LET block  == DeserializeBlock(blockData)
        stored == IF block.Hash \notin DOMAIN st.blocks
                  THEN BucketPut(st.blocks, block.Hash, blockData)
                  ELSE st.blocks
    IN IF (st.l = Nil /\ block.PrevBlockHash = Nil)
          \/ (st.l # Nil /\ block.PrevBlockHash = st.l)
       THEN [blocks |-> stored, l |-> block.Hash, tip |-> block.Hash]
       ELSE [blocks |-> stored, l |-> st.l, tip |-> st.tip]

\* PutBlock that returns before the tip rule when the block is stored.
PutBlockSkipDuplicate(st, blockData) ==
    LET block == DeserializeBlock(blockData)
    IN IF block.Hash \in DOMAIN st.blocks THEN st
       ELSE IF st.l = Nil \/ block.PrevBlockHash = st.l
       THEN [blocks |-> BucketPut(st.blocks, block.Hash, blockData),
             l |-> block.Hash, tip |-> block.Hash]
       ELSE [blocks |-> BucketPut(st.blocks, block.Hash, blockData),
             l |-> st.l, tip |-> st.tip]

PutBlock(st, blockData) ==
    LET block      == DeserializeBlock(blockData)
        stored     == IF block.Hash \notin DOMAIN st.blocks
                      THEN BucketPut(st.blocks, block.Hash, blockData)
                      ELSE st.blocks
        currentTip == st.l
    IN IF currentTip = Nil
       THEN [blocks |-> stored, l |-> block.Hash, tip |-> block.Hash]
       ELSE IF block.PrevBlockHash = currentTip
       THEN [blocks |-> stored, l |-> block.Hash, tip |-> block.Hash]
       ELSE [blocks |-> stored, l |-> st.l, tip |-> st.tip]

\* The transactions met by a walk from the tip, block by block.
ChainTxs(bm, tip) ==
    LET TxsOf(walk) == Flatten([i \in DOMAIN walk |-> walk[i].Transactions])
    IN TxsOf(IterBlocks(bm, tip))

FindTransaction(bm, tip, ID) ==
    LET Search(txs) ==
            LET hits == {i \in DOMAIN txs : txs[i].ID = ID}
            IN IF hits # {}
               THEN [err |-> "",
                     tx |-> txs[CHOOSE i \in hits : \A j \in hits : i <= j]]
               ELSE IF WalkHitsNil(bm, tip)
               THEN [err |-> "nil pointer dereference", tx |-> ZeroTx]
               ELSE [err |-> "transaction not found", tx |-> ZeroTx]
    IN Search(ChainTxs(bm, tip))

\* The prevTXs map built by SignTransaction and VerifyTransaction; both
\* panic on the first FindTransaction error.
PrevTXs(bm, tip, tx) ==
    LET Collect(found) ==
            LET bad  == {i \in DOMAIN tx.Vin : found[i].err # ""}
                keys == {HexEncode(found[i].tx.ID) : i \in DOMAIN tx.Vin}
            IN IF bad # {}
               THEN [err |-> found[CHOOSE i \in bad : \A j \in bad : i <= j].err,
                     map |-> EmptyMap]
               ELSE [err |-> "",
                     map |-> [k \in keys |->
                                found[CHOOSE i \in DOMAIN tx.Vin :
                                         HexEncode(found[i].tx.ID) = k].tx]]
    IN Collect([i \in DOMAIN tx.Vin |-> FindTransaction(bm, tip, tx.Vin[i].Txid)])

SignTransaction(bm, tip, tx, signer) ==
    LET Signed(signed) ==
            IF signed.panic
            THEN [err |-> "previous transaction is not correct", tx |-> tx]
            ELSE [err |-> "", tx |-> signed.tx]
        SignWith(prev) ==
            IF prev.err # "" THEN [err |-> prev.err, tx |-> tx]
            ELSE Signed(Sign(tx, signer, prev.map))
    IN SignWith(PrevTXs(bm, tip, tx))

VerifyTransaction(bm, tip, tx) ==
    LET Verified(v) ==
            IF v.panic
            THEN [err |-> "previous transaction is not correct", ok |-> FALSE]
            ELSE [err |-> "", ok |-> v.ok]
        VerifyWith(prev) ==
            IF prev.err # "" THEN [err |-> prev.err, ok |-> FALSE]
            ELSE Verified(Verify(tx, prev.map))
    IN IF IsCoinbase(tx) THEN [err |-> "", ok |-> TRUE]
       ELSE VerifyWith(PrevTXs(bm, tip, tx))

\* AddBlock that mines whatever it is given.
AddBlockMineUnverified(st, transactions, timeNow) ==
    [err |-> "", block |-> NewBlock(transactions, st.l, timeNow)]

\* AddBlock up to the end of NewBlock: verify every transaction, read the
\* value under lastHashKey in a View transaction, mine on it.
\* The loop stops at the first transaction whose VerifyTransaction panics
\* or returns false.
AddBlockMine(st, transactions, timeNow) ==
    LET Mine(checks) ==
            LET bad == {i \in DOMAIN transactions :
                           checks[i].err # "" \/ ~checks[i].ok}
                Stop(first) ==
                    IF checks[first].err # ""
                    THEN [err |-> checks[first].err, block |-> Nil]
                    ELSE [err |-> "invalid transaction", block |-> Nil]
            IN IF bad # {}
               THEN Stop(CHOOSE i \in bad : \A j \in bad : i <= j)
               ELSE [err |-> "", block |-> NewBlock(transactions, st.l, timeNow)]
    IN Mine([i \in DOMAIN transactions |->
                VerifyTransaction(st.blocks, st.tip, transactions[i])])

\* An Update transaction that writes the tip and not the block.
AddBlockCommitTipOnly(st, newBlock) ==
    [blocks |-> st.blocks, l |-> newBlock.Hash, tip |-> newBlock.Hash]

\* The Update transaction that ends AddBlock.
AddBlockCommit(st, newBlock) ==
    [blocks |-> BucketPut(st.blocks, newBlock.Hash, Serialize(newBlock)),
     l      |-> newBlock.Hash,
     tip    |-> newBlock.Hash]

\* CreateBlockchainForNode that stores the genesis block and no tip.
CreateBlockchainNoTip(address) ==
    LET genesis == NewGenesisBlock(CoinbaseTx(address, "Genesis"))
    IN [blocks |-> BucketPut(EmptyMap, genesis.Hash, Serialize(genesis)),
        l      |-> Nil,
        tip    |-> Nil]

\* The store written by CreateBlockchainForNode.
CreateBlockchainForNode(address) ==
    LET genesis == NewGenesisBlock(CoinbaseTx(address, "Genesis"))
    IN [blocks |-> BucketPut(EmptyMap, genesis.Hash, Serialize(genesis)),
        l      |-> genesis.Hash,
        tip    |-> genesis.Hash]

\* The handle returned by InitBlockchainForNode over the bucket bm, l.
InitBlockchainForNode(bm, l) == [blocks |-> bm, l |-> l, tip |-> l]

\* ------------------------------------------------------------- UTXO query
Repeat(x, k) == [i \in 1..k |-> x]

\* The inner loop over tx.Vin of FindUnspentTransactions.
RECURSIVE MarkSpent(_, _, _)
MarkSpent(vin, pubKeyHash, spentTXOs) ==
    IF vin = <<>> THEN spentTXOs
    ELSE LET in == Head(vin)
         IN IF UsesKey(in, pubKeyHash)
            THEN MarkSpent(Tail(vin), pubKeyHash,
                           MapAppend(spentTXOs, HexEncode(in.Txid), in.Vout))
            ELSE MarkSpent(Tail(vin), pubKeyHash, spentTXOs)

\* The body of FindUnspentTransactions over the transactions met from the
\* tip: the transaction is appended once for every output that is not in
\* spentTXOs[txID] and is locked with the key.
RECURSIVE ScanTxs(_, _, _, _)
ScanTxs(txs, pubKeyHash, unspentTXs, spentTXOs) ==
    IF txs = <<>> THEN unspentTXs
    ELSE LET tx    == Head(txs)
             txID  == HexEncode(tx.ID)
             spent == Range(MapGet(spentTXOs, txID))
             hits  == {outIdx \in 0..(Len(tx.Vout) - 1) :
                          /\ outIdx \notin spent
                          /\ IsLockedWithKey(tx.Vout[outIdx + 1], pubKeyHash)}
             marked == IF IsCoinbase(tx) THEN spentTXOs
                       ELSE MarkSpent(tx.Vin, pubKeyHash, spentTXOs)
         IN ScanTxs(Tail(txs), pubKeyHash,
                    unspentTXs \o Repeat(tx, Cardinality(hits)), marked)

FindUnspentTransactions(bm, tip, pubKeyHash) ==
    IF WalkHitsNil(bm, tip)
    THEN [err |-> "nil pointer dereference", txs |-> <<>>]
    ELSE [err |-> "", txs |-> ScanTxs(ChainTxs(bm, tip), pubKeyHash, <<>>, EmptyMap)]

\* The outputs of tx locked with the key, in order.
LockedOuts(tx, pubKeyHash) ==
    SelectSeq(tx.Vout, LAMBDA out : IsLockedWithKey(out, pubKeyHash))

FindUTXO(bm, tip, pubKeyHash) ==
    LET Outs(unspentTxs) ==
            IF unspentTxs.err # "" THEN [err |-> unspentTxs.err, outs |-> <<>>]
            ELSE [err |-> "",
                  outs |-> Flatten([i \in DOMAIN unspentTxs.txs |->
                                      LockedOuts(unspentTxs.txs[i], pubKeyHash)])]
    IN Outs(FindUnspentTransactions(bm, tip, pubKeyHash))

\* The (transaction, output index) pairs in the order the two loops of
\* FindSpendableOutputs visit them.
Candidates(unspentTxs) ==
    Flatten([i \in DOMAIN unspentTxs |->
               [k \in DOMAIN unspentTxs[i].Vout |->
                  [txID |-> HexEncode(unspentTxs[i].ID), outIdx |-> k - 1,
                   out |-> unspentTxs[i].Vout[k]]]])

RECURSIVE Accumulate(_, _, _, _, _)
Accumulate(cands, pubKeyHash, amount, accumulated, unspentOutputs) ==
    IF cands = <<>> THEN [acc |-> accumulated, outs |-> unspentOutputs]
    ELSE LET c == Head(cands)
         IN IF IsLockedWithKey(c.out, pubKeyHash) /\ accumulated < amount
            THEN LET sum  == accumulated + c.out.Value
                     outs == MapAppend(unspentOutputs, c.txID, c.outIdx)
                 IN IF sum >= amount THEN [acc |-> sum, outs |-> outs]
                    ELSE Accumulate(Tail(cands), pubKeyHash, amount, sum, outs)
            ELSE Accumulate(Tail(cands), pubKeyHash, amount, accumulated,
                            unspentOutputs)

FindSpendableOutputs(bm, tip, pubKeyHash, amount) ==
    LET Found(r) == [err |-> "", acc |-> r.acc, outs |-> r.outs]
        Select(unspentTxs) ==
            IF unspentTxs.err # ""
            THEN [err |-> unspentTxs.err, acc |-> 0, outs |-> EmptyMap]
            ELSE Found(Accumulate(Candidates(unspentTxs.txs), pubKeyHash, amount,
                                  0, EmptyMap))
    IN Select(FindUnspentTransactions(bm, tip, pubKeyHash))

\* Go ranges over the validOutputs map in an unspecified order: keyOrder is
\* the order this run of NewUTXOTransaction visits its keys in.
KeyOrders(m) ==
    {order \in [1..Cardinality(DOMAIN m) -> DOMAIN m] :
        \A i, j \in DOMAIN order : i # j => order[i] # order[j]}

TxInputs(validOutputs, keyOrder, pubKey) ==
    Flatten([i \in DOMAIN keyOrder |->
               [k \in DOMAIN validOutputs[keyOrder[i]] |->
                  [Txid |-> HexDecode(keyOrder[i]),
                   Vout |-> validOutputs[keyOrder[i]][k],
                   Signature |-> Nil, PubKey |-> pubKey]]])

TxOutputs(acc, amount, fromPubKeyHash, toPubKeyHash) ==
    <<[Value |-> amount, PubKeyHash |-> toPubKeyHash]>> \o
    (IF acc > amount
     THEN <<[Value |-> acc - amount, PubKeyHash |-> fromPubKeyHash]>>
     ELSE <<>>)

\* NewUTXOTransaction for one iteration order of validOutputs; err is the
\* panic message, "" when the transaction is returned.
NewUTXOTransaction(from, to, amount, bm, tip, keyOrder) ==
    LET fromPubKeyHash == PubKeyHashFromAddress(from)
        toPubKeyHash   == PubKeyHashFromAddress(to)
        Signed(signed) ==
            IF signed.err # "" THEN [err |-> signed.err, tx |-> ZeroTx]
            ELSE [err |-> "", tx |-> signed.tx]
        WithID(tx) == [tx EXCEPT !.ID = Hash(tx)]
        Build(spendable) ==
            IF spendable.err # "" THEN [err |-> spendable.err, tx |-> ZeroTx]
            ELSE IF spendable.acc < amount
            THEN [err |-> "not enough funds", tx |-> ZeroTx]
            ELSE Signed(SignTransaction(bm, tip,
                     WithID([ID |-> Nil,
                             Vin |-> TxInputs(spendable.outs, keyOrder,
                                              PublicKey(from)),
                             Vout |-> TxOutputs(spendable.acc, amount,
                                                fromPubKeyHash, toPubKeyHash)]),
                     from))
    IN IF ~ValidateAddress(from) \/ ~ValidateAddress(to)
       THEN [err |-> "invalid from/to address", tx |-> ZeroTx]
       ELSE IF from \notin WalletAddrs
       THEN [err |-> "sender wallet not found; createwallet first", tx |-> ZeroTx]
       ELSE Build(FindSpendableOutputs(bm, tip, fromPubKeyHash, amount))

\* The key orders NewUTXOTransaction may meet for this request.
SpendKeyOrders(from, amount, bm, tip) ==
    KeyOrders(FindSpendableOutputs(bm, tip, PubKeyHashFromAddress(from), amount).outs)

\* handleGetBalance's sum over FindUTXO.
Balance(bm, tip, address) ==
    LET Sum(UTXOs) ==
            IF UTXOs.err # "" THEN [err |-> UTXOs.err, balance |-> 0]
            ELSE [err |-> "",
                  balance |-> SeqSum([i \in DOMAIN UTXOs.outs |->
                                         UTXOs.outs[i].Value])]
    IN Sum(FindUTXO(bm, tip, PubKeyHashFromAddress(address)))

\* ------------------------------------------------------------------ state
VARIABLES
    status,           \* node -> "down" | "up": the startnode process
    dbExists,         \* node -> the file blockchain_<NODE_ID>.db exists
    blocks,           \* node -> bucket entries, hash -> serialized block
    lastHash,         \* node -> the value under lastHashKey, Nil if absent
    tip,              \* node -> the tip field of the running node's handle
    blocksInTransit,  \* node -> the process-wide queue of hashes to fetch
    minerAddr,        \* node -> the -miner address, "" if none
    mining,           \* node -> blocks mined by sendtx handlers, not yet written
    handling,         \* node -> block handlers that read the queue head and
                      \*         have not yet popped it
    msgs,             \* bag of messages sent and not yet handled
    now,              \* time.Now().Unix(); one second passes per mined block
    last              \* the last step: operation, node, arguments, outcome

vars == <<status, dbExists, blocks, lastHash, tip, blocksInTransit, minerAddr,
          mining, handling, msgs, now, last>>

Nodes == Range(knownNodes)
bootstrap == knownNodes[1]

Store(n) == [blocks |-> blocks[n], l |-> lastHash[n], tip |-> tip[n]]

SetStore(n, st) ==
    /\ blocks'   = [blocks EXCEPT ![n] = st.blocks]
    /\ lastHash' = [lastHash EXCEPT ![n] = st.l]
    /\ tip'      = [tip EXCEPT ![n] = st.tip]

\* sendData: the dial fails, and the message is lost, when nobody listens.
sendData(bag, addr, msg) ==
    IF status[addr] = "up" THEN bag (+) SetToBag({[to |-> addr] @@ msg}) ELSE bag

Received(bag, m) == bag (-) SetToBag({m})

VersionMsg(n, height) ==
    [Command |-> "version",
     Payload |-> [Version |-> protocolVersion, BestHeight |-> height, AddrFrom |-> n]]

GetBlocksMsg(n) == [Command |-> "getblocks", Payload |-> [AddrFrom |-> n]]

InvMsg(n, kind, items) ==
    [Command |-> "inv", Payload |-> [AddrFrom |-> n, Type |-> kind, Items |-> items]]

GetDataMsg(n, kind, id) ==
    [Command |-> "getdata", Payload |-> [AddrFrom |-> n, Type |-> kind, ID |-> id]]

BlockMsg(n, blockBytes) ==
    [Command |-> "block", Payload |-> [AddrFrom |-> n, Block |-> blockBytes]]

Init ==
    /\ status = [n \in Nodes |-> "down"]
    /\ dbExists = [n \in Nodes |-> FALSE]
    /\ blocks = [n \in Nodes |-> EmptyMap]
    /\ lastHash = [n \in Nodes |-> Nil]
    /\ tip = [n \in Nodes |-> Nil]
    /\ blocksInTransit = [n \in Nodes |-> <<>>]
    /\ minerAddr = [n \in Nodes |-> ""]
    /\ mining = [n \in Nodes |-> {}]
    /\ handling = [n \in Nodes |-> {}]
    /\ msgs = EmptyBag
    /\ now = 0
    /\ last = [op |-> "none"]

\* ------------------------------------------------------------ CLI actions
\* createblockchain -address: refused when the file exists.
CreateBlockchain(n, address) ==
    /\ ~dbExists[n]
    /\ ValidateAddress(address)
    /\ LET st == CreateBlockchainForNode(address)
       IN /\ blocks' = [blocks EXCEPT ![n] = st.blocks]
          /\ lastHash' = [lastHash EXCEPT ![n] = st.l]
    /\ dbExists' = [dbExists EXCEPT ![n] = TRUE]
    /\ last' = [op |-> "create", node |-> n, address |-> address, pre |-> Store(n)]
    /\ UNCHANGED <<status, tip, blocksInTransit, minerAddr, mining, msgs, now, handling>>

\* startnode: InitBlockchainForNode, then a node other than the bootstrap
\* announces its version to the bootstrap.
StartServer(n, minerAddress) ==
    /\ status[n] = "down"
    /\ LET st == InitBlockchainForNode(blocks[n], lastHash[n])
       IN /\ tip' = [tip EXCEPT ![n] = st.tip]
          /\ msgs' = IF n # bootstrap
                     THEN sendData(msgs, bootstrap,
                                   VersionMsg(n, BestHeight(st.blocks, st.tip)))
                     ELSE msgs
    /\ status' = [status EXCEPT ![n] = "up"]
    /\ dbExists' = [dbExists EXCEPT ![n] = TRUE]
    /\ minerAddr' = [minerAddr EXCEPT ![n] = minerAddress]
    /\ blocksInTransit' = [blocksInTransit EXCEPT ![n] = <<>>]
    /\ last' = [op |-> "start", node |-> n, pre |-> Store(n)]
    /\ UNCHANGED <<blocks, lastHash, mining, now, handling>>

\* -------------------------------------------------------- gossip handlers
\* handleVersion that answers a version of its own height as well.
handleVersionEager(n, m) ==
    /\ m.Command = "version"
    /\ LET payload == m.Payload
           myBestHeight == BestHeight(blocks[n], tip[n])
           rest == Received(msgs, m)
       IN msgs' = IF myBestHeight < payload.BestHeight
                  THEN sendData(rest, payload.AddrFrom, GetBlocksMsg(n))
                  ELSE sendData(rest, payload.AddrFrom,
                                VersionMsg(n, BestHeight(blocks[n], tip[n])))
    /\ last' = [op |-> "version", node |-> n, msg |-> m, pre |-> Store(n),
                inflight |-> msgs, transit |-> blocksInTransit[n]]
    /\ UNCHANGED <<status, dbExists, blocks, lastHash, tip, blocksInTransit,
                   minerAddr, mining, now, handling>>

handleVersion(n, m) ==
    /\ m.Command = "version"
    /\ LET payload == m.Payload
           myBestHeight == BestHeight(blocks[n], tip[n])
           rest == Received(msgs, m)
       IN msgs' = IF myBestHeight < payload.BestHeight
                  THEN sendData(rest, payload.AddrFrom, GetBlocksMsg(n))
                  ELSE IF myBestHeight > payload.BestHeight
                  THEN sendData(rest, payload.AddrFrom,
                                VersionMsg(n, BestHeight(blocks[n], tip[n])))
                  ELSE rest
    /\ last' = [op |-> "version", node |-> n, msg |-> m, pre |-> Store(n),
                inflight |-> msgs, transit |-> blocksInTransit[n]]
    /\ UNCHANGED <<status, dbExists, blocks, lastHash, tip, blocksInTransit,
                   minerAddr, mining, now, handling>>

handleGetBlocks(n, m) ==
    /\ m.Command = "getblocks"
    /\ msgs' = sendData(Received(msgs, m), m.Payload.AddrFrom,
                        InvMsg(n, "block", GetBlockHashes(blocks[n], tip[n])))
    /\ last' = [op |-> "getblocks", node |-> n, msg |-> m, pre |-> Store(n),
                inflight |-> msgs, transit |-> blocksInTransit[n]]
    /\ UNCHANGED <<status, dbExists, blocks, lastHash, tip, blocksInTransit,
                   minerAddr, mining, now, handling>>

\* The items of an inv the node does not hold, in the order announced.
MissingItems(bm, items) == SelectSeq(items, LAMBDA h : ~HasBlock(bm, h))

\* handleInv that appends the missing items to the queue it finds.
handleInvAppends(n, m) ==
    /\ m.Command = "inv"
    /\ LET payload == m.Payload
           missing == blocksInTransit[n] \o MissingItems(blocks[n], payload.Items)
           rest == Received(msgs, m)
       IN IF payload.Type # "block"
          THEN /\ msgs' = rest
               /\ UNCHANGED blocksInTransit
          ELSE IF Len(missing) = 0
          THEN /\ msgs' = rest
               /\ blocksInTransit' = [blocksInTransit EXCEPT ![n] = <<>>]
          ELSE /\ msgs' = sendData(rest, payload.AddrFrom,
                                   GetDataMsg(n, "block", missing[1]))
               /\ blocksInTransit' = [blocksInTransit EXCEPT ![n] = Tail(missing)]
    /\ last' = [op |-> "inv", node |-> n, msg |-> m, pre |-> Store(n),
                inflight |-> msgs]
    /\ UNCHANGED <<status, dbExists, blocks, lastHash, tip, minerAddr, mining, now,
                   handling>>

\* handleInv that asks for the first item announced whether it holds the
\* block or not.
handleInvRefetches(n, m) ==
    /\ m.Command = "inv"
    /\ LET payload == m.Payload
           missing == MissingItems(blocks[n], payload.Items)
           rest == Received(msgs, m)
       IN IF payload.Type # "block"
          THEN /\ msgs' = rest
               /\ UNCHANGED blocksInTransit
          ELSE IF Len(payload.Items) = 0
          THEN /\ msgs' = rest
               /\ blocksInTransit' = [blocksInTransit EXCEPT ![n] = <<>>]
          ELSE /\ msgs' = sendData(rest, payload.AddrFrom,
                                   GetDataMsg(n, "block", payload.Items[1]))
               /\ blocksInTransit' = [blocksInTransit EXCEPT ![n] =
                      IF missing # <<>> /\ missing[1] = payload.Items[1]
                      THEN Tail(missing) ELSE missing]
    /\ last' = [op |-> "inv", node |-> n, msg |-> m, pre |-> Store(n),
                inflight |-> msgs]
    /\ UNCHANGED <<status, dbExists, blocks, lastHash, tip, minerAddr, mining, now,
                   handling>>

handleInv(n, m) ==
    /\ m.Command = "inv"
    /\ LET payload == m.Payload
           missing == MissingItems(blocks[n], payload.Items)
           rest == Received(msgs, m)
       IN IF payload.Type # "block"
          THEN /\ msgs' = rest
               /\ UNCHANGED blocksInTransit
          ELSE IF Len(missing) = 0
          THEN /\ msgs' = rest
               /\ blocksInTransit' = [blocksInTransit EXCEPT ![n] = <<>>]
          ELSE /\ msgs' = sendData(rest, payload.AddrFrom,
                                   GetDataMsg(n, "block", missing[1]))
               /\ blocksInTransit' = [blocksInTransit EXCEPT ![n] = Tail(missing)]
    /\ last' = [op |-> "inv", node |-> n, msg |-> m, pre |-> Store(n),
                inflight |-> msgs]
    /\ UNCHANGED <<status, dbExists, blocks, lastHash, tip, minerAddr, mining, now,
                   handling>>

\* handleGetData that answers whatever the type asked for.
handleGetDataAnyType(n, m) ==
    /\ m.Command = "getdata"
    /\ LET payload == m.Payload
           got == GetBlock(blocks[n], payload.ID)
           rest == Received(msgs, m)
       IN msgs' = IF got.err = ""
                  THEN sendData(rest, payload.AddrFrom, BlockMsg(n, got.data))
                  ELSE rest
    /\ last' = [op |-> "getdata", node |-> n, msg |-> m, pre |-> Store(n),
                inflight |-> msgs, transit |-> blocksInTransit[n]]
    /\ UNCHANGED <<status, dbExists, blocks, lastHash, tip, blocksInTransit,
                   minerAddr, mining, now, handling>>

handleGetData(n, m) ==
    /\ m.Command = "getdata"
    /\ LET payload == m.Payload
           got == GetBlock(blocks[n], payload.ID)
           rest == Received(msgs, m)
       IN msgs' = IF payload.Type = "block" /\ got.err = ""
                  THEN sendData(rest, payload.AddrFrom, BlockMsg(n, got.data))
                  ELSE rest
    /\ last' = [op |-> "getdata", node |-> n, msg |-> m, pre |-> Store(n),
                inflight |-> msgs, transit |-> blocksInTransit[n]]
    /\ UNCHANGED <<status, dbExists, blocks, lastHash, tip, blocksInTransit,
                   minerAddr, mining, now, handling>>

\* handleBlock that announces its version after every block.
handleBlockAnnounces(n, m) ==
    /\ m.Command = "block"
    /\ LET payload == m.Payload
           st == PutBlock(Store(n), payload.Block)
           rest == Received(msgs, m)
           told == IF n # bootstrap
                   THEN sendData(rest, bootstrap,
                                 VersionMsg(n, BestHeight(st.blocks, st.tip)))
                   ELSE rest
       IN /\ SetStore(n, st)
          /\ IF Len(blocksInTransit[n]) > 0
             THEN /\ blocksInTransit' =
                        [blocksInTransit EXCEPT ![n] = Tail(blocksInTransit[n])]
                  /\ msgs' = sendData(told, payload.AddrFrom,
                                      GetDataMsg(n, "block", blocksInTransit[n][1]))
             ELSE /\ UNCHANGED blocksInTransit
                  /\ msgs' = told
          /\ last' = [op |-> "block", node |-> n, msg |-> m, pre |-> Store(n),
                      inflight |-> msgs, transit |-> blocksInTransit[n],
                      block |-> DeserializeBlock(payload.Block)]
    /\ UNCHANGED <<status, dbExists, minerAddr, mining, now, handling>>

handleBlock(n, m) ==
    /\ m.Command = "block"
    /\ LET payload == m.Payload
           st == PutBlock(Store(n), payload.Block)
           rest == Received(msgs, m)
       IN /\ SetStore(n, st)
          /\ IF Len(blocksInTransit[n]) > 0
             THEN /\ blocksInTransit' =
                        [blocksInTransit EXCEPT ![n] = Tail(blocksInTransit[n])]
                  /\ msgs' = sendData(rest, payload.AddrFrom,
                                      GetDataMsg(n, "block", blocksInTransit[n][1]))
             ELSE /\ UNCHANGED blocksInTransit
                  /\ msgs' = IF n # bootstrap
                             THEN sendData(rest, bootstrap,
                                           VersionMsg(n, BestHeight(st.blocks, st.tip)))
                             ELSE rest
          /\ last' = [op |-> "block", node |-> n, msg |-> m, pre |-> Store(n),
                      inflight |-> msgs, transit |-> blocksInTransit[n],
                      block |-> DeserializeBlock(payload.Block)]
    /\ UNCHANGED <<status, dbExists, minerAddr, mining, now, handling>>

\* ----------------------------------------------------------- RPC handlers
\* BroadcastNewBlock: one inv carrying the hash to every other known node.
RECURSIVE BroadcastNewBlock(_, _, _, _)
BroadcastNewBlock(bag, peers, fromAddr, blockHash) ==
    IF peers = <<>> THEN bag
    ELSE BroadcastNewBlock(
             IF Head(peers) = fromAddr THEN bag
             ELSE sendData(bag, Head(peers), InvMsg(fromAddr, "block", <<blockHash>>)),
             Tail(peers), fromAddr, blockHash)

\* A coinbase receiver that ignores the -miner address.
CoinbaseToSender(n, from) == from

CoinbaseTo(n, from) == IF minerAddr[n] = "" THEN from ELSE minerAddr[n]

\* handleSendTx up to the end of NewBlock, for one iteration order of the
\* selected outputs: err is the message of the ok=false reply, "" when the
\* block was mined.
SendTxBuild(n, from, to, amount, keyOrder) ==
    LET Mine(built) ==
            IF built.err # "" THEN [err |-> built.err, block |-> Nil]
            ELSE AddBlockMine(Store(n),
                              <<CoinbaseTx(CoinbaseTo(n, from), ""), built.tx>>,
                              now + 1)
    IN IF amount <= 0 THEN [err |-> "amount must be > 0", block |-> Nil]
       ELSE IF ~ValidateAddress(from) \/ ~ValidateAddress(to)
       THEN [err |-> "invalid from/to address", block |-> Nil]
       ELSE Mine(NewUTXOTransaction(from, to, amount, blocks[n], tip[n], keyOrder))

\* handleSendTx that goes on to BroadcastNewBlock after a failed send.
SendTxFailAnnounces(n, from, to, amount) ==
    /\ status[n] = "up"
    /\ \E keyOrder \in SpendKeyOrders(from, amount, blocks[n], tip[n]) :
         LET Refuse(r) ==
                 /\ r.err # ""
                 /\ last' = [op |-> "sendtx.fail", node |-> n, pre |-> Store(n),
                             from |-> from, to |-> to, amount |-> amount,
                             inflight |-> msgs,
                             reply |-> [OK |-> FALSE, Message |-> r.err]]
         IN Refuse(SendTxBuild(n, from, to, amount, keyOrder))
    /\ msgs' = BroadcastNewBlock(msgs, knownNodes, n, lastHash[n])
    /\ UNCHANGED <<status, dbExists, blocks, lastHash, tip, blocksInTransit,
                   minerAddr, mining, now, handling>>

\* handleSendTx replying ok=false; nothing is written.
SendTxFail(n, from, to, amount) ==
    /\ status[n] = "up"
    /\ \E keyOrder \in SpendKeyOrders(from, amount, blocks[n], tip[n]) :
         LET Refuse(r) ==
                 /\ r.err # ""
                 /\ last' = [op |-> "sendtx.fail", node |-> n, pre |-> Store(n),
                             from |-> from, to |-> to, amount |-> amount,
                             inflight |-> msgs,
                             reply |-> [OK |-> FALSE, Message |-> r.err]]
         IN Refuse(SendTxBuild(n, from, to, amount, keyOrder))
    /\ UNCHANGED <<status, dbExists, blocks, lastHash, tip, blocksInTransit,
                   minerAddr, mining, msgs, now, handling>>

\* handleSendTx up to the end of NewBlock inside AddBlock: the block is
\* mined on the tip read by the View transaction and waits for the Update.
SendTxMine(n, from, to, amount) ==
    /\ status[n] = "up"
    /\ now < MaxMined
    /\ \E keyOrder \in SpendKeyOrders(from, amount, blocks[n], tip[n]) :
         LET Mined(r) ==
                 /\ r.err = ""
                 /\ mining' = [mining EXCEPT ![n] = @ \cup
                        {[from |-> from, to |-> to, amount |-> amount,
                          block |-> r.block]}]
         IN Mined(SendTxBuild(n, from, to, amount, keyOrder))
    /\ now' = now + 1
    /\ last' = [op |-> "sendtx.mine", node |-> n, pre |-> Store(n),
                from |-> from, to |-> to, amount |-> amount]
    /\ UNCHANGED <<status, dbExists, blocks, lastHash, tip, blocksInTransit,
                   minerAddr, msgs, handling>>

\* The Update transaction of AddBlock, then BroadcastNewBlock and the reply.
SendTxCommit(n, p) ==
    /\ status[n] = "up"
    /\ p \in mining[n]
    /\ SetStore(n, AddBlockCommit(Store(n), p.block))
    /\ mining' = [mining EXCEPT ![n] = @ \ {p}]
    /\ msgs' = BroadcastNewBlock(msgs, knownNodes, n, p.block.Hash)
    /\ last' = [op |-> "sendtx", node |-> n, pre |-> Store(n),
                from |-> p.from, to |-> p.to, amount |-> p.amount,
                inflight |-> msgs,
                block |-> p.block, reply |-> [OK |-> TRUE, Message |-> "Success!"]]
    /\ UNCHANGED <<status, dbExists, blocksInTransit, minerAddr, now, handling>>

\* handleSendTx served from the first read to the reply with no other
\* handler of the node in between.
SendTx(n, from, to, amount) ==
    /\ status[n] = "up"
    /\ now < MaxMined
    /\ \E keyOrder \in SpendKeyOrders(from, amount, blocks[n], tip[n]) :
         LET Added(r) ==
                 /\ r.err = ""
                 /\ SetStore(n, AddBlockCommit(Store(n), r.block))
                 /\ msgs' = BroadcastNewBlock(msgs, knownNodes, n, r.block.Hash)
                 /\ last' = [op |-> "sendtx", node |-> n, pre |-> Store(n),
                             from |-> from, to |-> to, amount |-> amount,
                             inflight |-> msgs,
                             block |-> r.block,
                             reply |-> [OK |-> TRUE, Message |-> "Success!"]]
         IN Added(SendTxBuild(n, from, to, amount, keyOrder))
    /\ now' = now + 1
    /\ UNCHANGED <<status, dbExists, blocksInTransit, minerAddr, mining, handling>>

\* A panic no handler recovers ends the process: its handle, its queue and
\* the handlers in progress are gone, the connections to it are closed.
Crash(n) ==
    /\ status' = [status EXCEPT ![n] = "down"]
    /\ tip' = [tip EXCEPT ![n] = Nil]
    /\ blocksInTransit' = [blocksInTransit EXCEPT ![n] = <<>>]
    /\ minerAddr' = [minerAddr EXCEPT ![n] = ""]
    /\ mining' = [mining EXCEPT ![n] = {}]
    /\ handling' = [handling EXCEPT ![n] = {}]
    /\ msgs' = [m \in {x \in DOMAIN msgs : x.to # n} |-> msgs[m]]

handleGetBalance(n, address) ==
    /\ status[n] = "up"
    /\ LET Reply(res) ==
          IF ~ValidateAddress(address)
          THEN /\ last' = [op |-> "getbalance", node |-> n, pre |-> Store(n),
                           address |-> address,
                           reply |-> [OK |-> FALSE, Message |-> "invalid address",
                                      Balance |-> 0]]
               /\ UNCHANGED <<status, tip, blocksInTransit, minerAddr, mining, msgs, handling>>
          ELSE IF res.err # ""
          THEN /\ Crash(n)
               /\ last' = [op |-> "getbalance.panic", node |-> n, pre |-> Store(n),
                           address |-> address]
          ELSE /\ last' = [op |-> "getbalance", node |-> n, pre |-> Store(n),
                           address |-> address,
                           reply |-> [OK |-> TRUE, Message |-> "",
                                      Balance |-> res.balance]]
               /\ UNCHANGED <<status, tip, blocksInTransit, minerAddr, mining, msgs, handling>>
       IN Reply(Balance(blocks[n], tip[n], address))
    /\ UNCHANGED <<dbExists, blocks, lastHash, now>>

\* ---------------------------------------------------------- specifications
\* Spec: the bootstrap node, created for address A and started first, one
\* peer started with an empty store, the gossip between them, and sendtx
\* requests served one at a time by the bootstrap.
SyncPeers == {knownNodes[2]}
SyncRequests == {[from |-> "A", to |-> "B", amount |-> 3]}

Create == CreateBlockchain(bootstrap, "A")

Start ==
    \E n \in {bootstrap} \cup SyncPeers :
        /\ dbExists[bootstrap]
        /\ n # bootstrap => status[bootstrap] = "up"
        /\ StartServer(n, "")

OnVersion == \E m \in DOMAIN msgs : handleVersion(m.to, m)
OnGetBlocks == \E m \in DOMAIN msgs : handleGetBlocks(m.to, m)
OnInv == \E m \in DOMAIN msgs : handleInv(m.to, m)
OnGetData == \E m \in DOMAIN msgs : handleGetData(m.to, m)
OnBlock == \E m \in DOMAIN msgs : handleBlock(m.to, m)
OnSendTx == \E r \in SyncRequests : SendTx(bootstrap, r.from, r.to, r.amount)

Next ==
    \/ Create
    \/ Start
    \/ OnVersion
    \/ OnGetBlocks
    \/ OnInv
    \/ OnGetData
    \/ OnBlock
    \/ OnSendTx

Spec == Init /\ [][Next]_vars

\* SpecLedger: one node, the bootstrap, with no peer listening; sendtx
\* requests between the wallets are served concurrently, each in its own
\* handler task, and getbalance requests read the chain.
LedgerAddrs == {"A", "B"}
LedgerAmounts == {3, 12}
LedgerMiners == {"", "B"}

LedgerCreate == CreateBlockchain(bootstrap, "A")
LedgerStart == \E miner \in LedgerMiners : StartServer(bootstrap, miner)
LedgerMine ==
    \E from \in LedgerAddrs, to \in LedgerAddrs, amount \in LedgerAmounts :
        SendTxMine(bootstrap, from, to, amount)
LedgerCommit == \E p \in mining[bootstrap] : SendTxCommit(bootstrap, p)
LedgerRefuse ==
    \E from \in LedgerAddrs, to \in LedgerAddrs, amount \in LedgerAmounts :
        SendTxFail(bootstrap, from, to, amount)
LedgerBalance == \E address \in LedgerAddrs : handleGetBalance(bootstrap, address)

NextLedger ==
    \/ LedgerCreate
    \/ LedgerStart
    \/ LedgerMine
    \/ LedgerCommit
    \/ LedgerRefuse
    \/ LedgerBalance

SpecLedger == Init /\ [][NextLedger]_vars

\* SpecWire: the bootstrap builds its chain before the peer joins, and the
\* two nodes also receive messages that no handler of the other sent: an
\* inv of another type, an inv naming a block nobody holds, a getdata of
\* another type or for a block that is not held, a version of any height,
\* a block nobody asked for.
WirePeer == knownNodes[2]
WireAbsent == Hash(ZeroTx)
WireHeights == {0, 1, 4}

WireForeign(from) ==
    {InvMsg(from, "tx", <<WireAbsent>>),
     InvMsg(from, "block", <<WireAbsent>>),
     GetDataMsg(from, "block", WireAbsent)}
    \cup {GetDataMsg(from, "tx", h) : h \in DOMAIN blocks[from]}
    \cup {InvMsg(from, "block", GetBlockHashes(blocks[from], lastHash[from]))}
    \cup {VersionMsg(from, h) : h \in WireHeights}
    \cup {BlockMsg(from, blocks[from][h]) : h \in DOMAIN blocks[from]}

\* A client dials node `to` and writes one message naming `from` as sender.
WireInject(to, from) ==
    /\ status[to] = "up"
    /\ status[from] = "up"
    /\ BagCardinality(msgs) <= 1
    /\ \E m \in WireForeign(from) :
          /\ msgs' = sendData(msgs, to, m)
          /\ last' = [op |-> "inject", node |-> to, msg |-> m, pre |-> Store(to)]
    /\ UNCHANGED <<status, dbExists, blocks, lastHash, tip, blocksInTransit,
                   minerAddr, mining, now, handling>>

WireSendTx ==
    /\ status[WirePeer] = "down"
    /\ OnSendTx
WireForeignMsg ==
    \E to \in {bootstrap, WirePeer}, from \in {bootstrap, WirePeer} :
        to # from /\ WireInject(to, from)

NextWire ==
    \/ Create
    \/ Start
    \/ OnVersion
    \/ OnGetBlocks
    \/ OnInv
    \/ OnGetData
    \/ OnBlock
    \/ WireSendTx
    \/ WireForeignMsg

SpecWire == Init /\ [][NextWire]_vars

\* handleBlock in a task of its own, up to `next := blocksInTransit[0]`: no
\* lock is held, so other handlers of the node run before the pop.
handleBlockRead(n, m) ==
    /\ m.Command = "block"
    /\ LET payload == m.Payload
           rest == Received(msgs, m)
           Put(st) ==
               /\ SetStore(n, st)
               /\ IF Len(blocksInTransit[n]) > 0
                  THEN /\ handling' = [handling EXCEPT ![n] = @ \cup
                             {[from |-> payload.AddrFrom,
                               next |-> blocksInTransit[n][1]]}]
                       /\ msgs' = rest
                  ELSE /\ UNCHANGED handling
                       /\ msgs' = IF n # bootstrap
                                  THEN sendData(rest, bootstrap,
                                           VersionMsg(n, BestHeight(st.blocks,
                                                                    st.tip)))
                                  ELSE rest
       IN Put(PutBlock(Store(n), payload.Block))
    /\ last' = [op |-> "block.read", node |-> n, msg |-> m, pre |-> Store(n),
                transit |-> blocksInTransit[n]]
    /\ UNCHANGED <<status, dbExists, blocksInTransit, minerAddr, mining, now>>

\* The rest of that handleBlock: `blocksInTransit = blocksInTransit[1:]`,
\* which panics on an empty slice, then sendGetData for the hash read.
handleBlockPop(n, t) ==
    /\ status[n] = "up"
    /\ t \in handling[n]
    /\ IF Len(blocksInTransit[n]) = 0
       THEN /\ Crash(n)
            /\ last' = [op |-> "block.pop.panic", node |-> n, pre |-> Store(n),
                        next |-> t.next, transit |-> blocksInTransit[n]]
            /\ UNCHANGED <<dbExists, blocks, lastHash, now>>
       ELSE /\ blocksInTransit' =
                  [blocksInTransit EXCEPT ![n] = Tail(blocksInTransit[n])]
            /\ handling' = [handling EXCEPT ![n] = @ \ {t}]
            /\ msgs' = sendData(msgs, t.from, GetDataMsg(n, "block", t.next))
            /\ last' = [op |-> "block.pop", node |-> n, pre |-> Store(n),
                        next |-> t.next, transit |-> blocksInTransit[n]]
            /\ UNCHANGED <<status, dbExists, blocks, lastHash, tip, minerAddr,
                           mining, now>>

\* SpecRace: the nodes of SpecWire with every handleBlock run as a task
\* that other handlers of the node interleave with; the peer also receives
\* an inv of the bootstrap's chain, or one of its blocks, that it did not
\* ask for.
RaceForeign(from) ==
    {InvMsg(from, "block", GetBlockHashes(blocks[from], lastHash[from]))}
    \cup {BlockMsg(from, blocks[from][h]) : h \in DOMAIN blocks[from]}

RaceInject(to, from) ==
    /\ status[to] = "up"
    /\ status[from] = "up"
    /\ BagCardinality(msgs) <= 1
    /\ \E m \in RaceForeign(from) :
          /\ msgs' = sendData(msgs, to, m)
          /\ last' = [op |-> "inject", node |-> to, msg |-> m, pre |-> Store(to)]
    /\ UNCHANGED <<status, dbExists, blocks, lastHash, tip, blocksInTransit,
                   minerAddr, mining, handling, now>>

RaceForeignMsg == RaceInject(WirePeer, bootstrap)
RaceBlockRead == \E m \in DOMAIN msgs : handleBlockRead(m.to, m)
RaceBlockPop == \E n \in Nodes : \E t \in handling[n] : handleBlockPop(n, t)

NextRace ==
    \/ Create
    \/ Start
    \/ OnVersion
    \/ OnGetBlocks
    \/ OnInv
    \/ OnGetData
    \/ RaceBlockRead
    \/ RaceBlockPop
    \/ WireSendTx
    \/ RaceForeignMsg

SpecRace == Init /\ [][NextRace]_vars

\* SpecRpc: SpecLedger with a second known node that was started before
\* the bootstrap and listens, so that what the bootstrap sends to it stays
\* in flight, with sendtx requests from an address that has no wallet and
\* without getbalance requests.
RpcPeer == knownNodes[2]
RpcRequests == {[from |-> "C", to |-> "A", amount |-> 3]}

RpcPeerListen ==
    /\ status[bootstrap] = "down"
    /\ StartServer(RpcPeer, "")
RpcRefuse ==
    \E req \in RpcRequests :
        SendTxFail(bootstrap, req.from, req.to, req.amount)

NextRpc ==
    \/ LedgerCreate
    \/ LedgerStart
    \/ LedgerMine
    \/ LedgerCommit
    \/ LedgerRefuse
    \/ RpcPeerListen
    \/ RpcRefuse

SpecRpc == Init /\ [][NextRpc]_vars

\* SpecApi: a caller of the core package on the bootstrap node's open
\* handle, handing AddBlock and Sign transactions of its own making.
ApiFrom == "A"
ApiTo == "B"
ApiAmount == 3
ApiSigners == WalletAddrs

\* A transaction as NewUTXOTransaction holds it before SignTransaction:
\* every input's Signature is nil.
Unsigned(tx) ==
    [tx EXCEPT !.Vin = [i \in DOMAIN tx.Vin |->
                           [tx.Vin[i] EXCEPT !.Signature = Nil]]]

\* A spend of an output of a transaction no block holds.
ApiDangling ==
    LET tx == [ID |-> Nil,
               Vin |-> <<[Txid |-> Hash(ZeroTx), Vout |-> 0,
                          Signature |-> Nil, PubKey |-> PublicKey(ApiFrom)]>>,
               Vout |-> <<[Value |-> ApiAmount,
                           PubKeyHash |-> PubKeyHashFromAddress(ApiTo)]>>]
    IN [tx EXCEPT !.ID = Hash(tx)]

\* The spends the caller makes over store st: the one NewUTXOTransaction
\* returns, the same without signatures, the same signed with the key of
\* another wallet, and the dangling one.
ApiSpends(st, keyOrder) ==
    LET Resigned(signed) == IF signed.err # "" THEN {} ELSE {signed.tx}
        From(built) ==
            IF built.err # "" THEN {ApiDangling}
            ELSE {ApiDangling, built.tx, Unsigned(built.tx)}
                 \cup Resigned(SignTransaction(st.blocks, st.tip,
                                               Unsigned(built.tx), ApiTo))
    IN From(NewUTXOTransaction(ApiFrom, ApiTo, ApiAmount, st.blocks, st.tip,
                               keyOrder))

\* bc.AddBlock(transactions) from the first VerifyTransaction to the return
\* or the panic, which the caller recovers.
ApiAddBlock(n, transactions) ==
    /\ status[n] = "up"
    /\ LET Added(r) ==
               IF r.err # ""
               THEN /\ last' = [op |-> "addblock", node |-> n, pre |-> Store(n),
                                transactions |-> transactions, err |-> r.err]
                    /\ UNCHANGED <<blocks, lastHash, tip, now>>
               ELSE /\ now < MaxMined
                    /\ SetStore(n, AddBlockCommit(Store(n), r.block))
                    /\ now' = now + 1
                    /\ last' = [op |-> "addblock", node |-> n, pre |-> Store(n),
                                transactions |-> transactions, err |-> "",
                                block |-> r.block]
       IN Added(AddBlockMine(Store(n), transactions, now + 1))
    /\ UNCHANGED <<status, dbExists, blocksInTransit, minerAddr, mining, msgs, handling>>

\* tx.Sign(privKey, prevTXs) on the caller's copy of tx; res.tx is the
\* transaction after the call.
ApiSign(n, tx, signer, prevTXs) ==
    /\ status[n] = "up"
    /\ last' = [op |-> "sign", node |-> n, pre |-> Store(n), tx |-> tx,
                signer |-> signer, prevTXs |-> prevTXs,
                res |-> Sign(tx, signer, prevTXs)]
    /\ UNCHANGED <<status, dbExists, blocks, lastHash, tip, blocksInTransit,
                   minerAddr, mining, msgs, now, handling>>

ApiCreate == CreateBlockchain(bootstrap, ApiFrom)
ApiOpen == StartServer(bootstrap, "")
ApiAdd ==
    \E keyOrder \in SpendKeyOrders(ApiFrom, ApiAmount, blocks[bootstrap],
                                   tip[bootstrap]) :
        LET With(spends) ==
                \E t1 \in spends \cup {CoinbaseTx(ApiFrom, "")}, t2 \in spends :
                    ApiAddBlock(bootstrap, <<t1, t2>>)
        IN With(ApiSpends(Store(bootstrap), keyOrder))
ApiSigning ==
    \E keyOrder \in SpendKeyOrders(ApiFrom, ApiAmount, blocks[bootstrap],
                                   tip[bootstrap]) :
        LET With(spends) ==
                \E tx \in spends \cup {CoinbaseTx(ApiFrom, "")},
                   signer \in ApiSigners :
                    LET Maps(prev) ==
                            \E prevTXs \in {EmptyMap, prev.map} :
                                ApiSign(bootstrap, tx, signer, prevTXs)
                    IN Maps(PrevTXs(blocks[bootstrap], tip[bootstrap], tx))
        IN With(ApiSpends(Store(bootstrap), keyOrder))

NextApi ==
    \/ ApiCreate
    \/ ApiOpen
    \/ ApiAdd
    \/ ApiSigning

SpecApi == Init /\ [][NextApi]_vars

\* SpecMerkle: NewMerkleTree, NewBlock and NewGenesisBlock applied to
\* every list of at most MaxLeaves transactions.
MaxLeaves == 4
MerkleTxs == {CoinbaseTx("A", ""), CoinbaseTx("B", ""), ApiDangling}
MerkleInputs == UNION {[1..k -> MerkleTxs] : k \in 0..MaxLeaves}

InitMerkle ==
    /\ status = [n \in Nodes |-> "down"]
    /\ dbExists = [n \in Nodes |-> FALSE]
    /\ blocks = [n \in Nodes |-> EmptyMap]
    /\ lastHash = [n \in Nodes |-> Nil]
    /\ tip = [n \in Nodes |-> Nil]
    /\ blocksInTransit = [n \in Nodes |-> <<>>]
    /\ minerAddr = [n \in Nodes |-> ""]
    /\ mining = [n \in Nodes |-> {}]
    /\ handling = [n \in Nodes |-> {}]
    /\ msgs = EmptyBag
    /\ now = 0
    /\ last \in {[op |-> "merkle.in", transactions |-> t] : t \in MerkleInputs}

\* NewMerkleTree over the IDs of the transactions, as HashTransactions
\* collects them.
MerkleTreeOf ==
    /\ last.op = "merkle.in"
    /\ last' = [op |-> "merkle", transactions |-> last.transactions,
                data |-> [i \in DOMAIN last.transactions |->
                             last.transactions[i].ID],
                root |-> NewMerkleTree([i \in DOMAIN last.transactions |->
                                           last.transactions[i].ID])]
    /\ UNCHANGED <<status, dbExists, blocks, lastHash, tip, blocksInTransit,
                   minerAddr, mining, msgs, now, handling>>

MerkleNewBlock ==
    /\ last.op = "merkle.in"
    /\ last' = [op |-> "newblock", transactions |-> last.transactions,
                block |-> NewBlock(last.transactions, Nil, now + 1)]
    /\ UNCHANGED <<status, dbExists, blocks, lastHash, tip, blocksInTransit,
                   minerAddr, mining, msgs, now, handling>>

MerkleGenesis ==
    /\ last.op = "merkle.in"
    /\ Len(last.transactions) = 1
    /\ IsCoinbase(last.transactions[1])
    /\ last' = [op |-> "newblock", transactions |-> last.transactions,
                block |-> NewGenesisBlock(last.transactions[1])]
    /\ UNCHANGED <<status, dbExists, blocks, lastHash, tip, blocksInTransit,
                   minerAddr, mining, msgs, now, handling>>

NextMerkle ==
    \/ MerkleTreeOf
    \/ MerkleNewBlock
    \/ MerkleGenesis

SpecMerkle == InitMerkle /\ [][NextMerkle]_vars

\* SpecAddress: ValidateAddress and PubKeyHashFromAddress at the level of
\* bytes. An address string is [alphabet, b58]: whether all its characters
\* are in the base-58 alphabet, and the bytes they stand for. A byte is [v, of]: a plain byte of value v has of = <<>>, and the
\* v-th byte of the double SHA-256 of payload p has of = <<p>>.
addressChecksumLen == 4
pubKeyHashLen == 20

Byte(v) == [v |-> v, of |-> <<>>]

\* checksum(payload): the first addressChecksumLen bytes of
\* SHA-256(SHA-256(payload)).
Checksum(payload) == [i \in 1..addressChecksumLen |-> [v |-> i, of |-> <<payload>>]]

\* Base58Decode: nil for a string with a character outside the alphabet,
\* else the bytes the string stands for.
Base58Decode(address) == IF ~address.alphabet THEN Nil ELSE address.b58

\* ValidateAddress, from the decoded bytes on. A nil slice has length 0.
ValidateDecoded(decoded) ==
    IF decoded = Nil \/ Len(decoded) < 1 + addressChecksumLen THEN FALSE
    ELSE LET payload == SubSeq(decoded, 1, Len(decoded) - addressChecksumLen)
             actualChecksum == SubSeq(decoded,
                                      Len(decoded) - addressChecksumLen + 1,
                                      Len(decoded))
         IN actualChecksum = Checksum(payload)

\* PubKeyHashFromAddress, from the decoded bytes on.
PubKeyHashFromDecoded(decoded) ==
    IF decoded = Nil \/ Len(decoded) < 1 + addressChecksumLen THEN Nil
    ELSE SubSeq(decoded, 2, Len(decoded) - addressChecksumLen)

\* The strings tried: one with a character outside the alphabet, strings
\* of fewer than 1 + addressChecksumLen bytes, and a version byte followed
\* by a key hash of some length and by its checksum or by another.
AddressPkhLens == {0, 1, pubKeyHashLen - 1, pubKeyHashLen, pubKeyHashLen + 1}
AddressPayloads ==
    {<<Byte(ver)>> \o [i \in 1..n |-> Byte(fill)] :
        ver \in {0, 1}, n \in AddressPkhLens, fill \in {1, 2}}
AddressStrings ==
    {[alphabet |-> FALSE, b58 |-> <<>>]}
    \cup {[alphabet |-> TRUE, b58 |-> bytes] :
             bytes \in UNION {[1..k -> {Byte(0), Byte(1)}] :
                                 k \in 0..addressChecksumLen}}
    \cup {[alphabet |-> TRUE, b58 |-> p \o Checksum(p)] : p \in AddressPayloads}
    \cup {[alphabet |-> TRUE, b58 |-> p \o Checksum(<<>>)] :
             p \in AddressPayloads}

InitAddress ==
    /\ status = [n \in Nodes |-> "down"]
    /\ dbExists = [n \in Nodes |-> FALSE]
    /\ blocks = [n \in Nodes |-> EmptyMap]
    /\ lastHash = [n \in Nodes |-> Nil]
    /\ tip = [n \in Nodes |-> Nil]
    /\ blocksInTransit = [n \in Nodes |-> <<>>]
    /\ minerAddr = [n \in Nodes |-> ""]
    /\ mining = [n \in Nodes |-> {}]
    /\ handling = [n \in Nodes |-> {}]
    /\ msgs = EmptyBag
    /\ now = 0
    /\ last \in {[op |-> "address.in", address |-> a] : a \in AddressStrings}

AddressValidate ==
    /\ last.op = "address.in"
    /\ last' = [op |-> "validate", address |-> last.address,
                decoded |-> Base58Decode(last.address),
                valid |-> ValidateDecoded(Base58Decode(last.address)),
                pubKeyHash |-> PubKeyHashFromDecoded(Base58Decode(last.address))]
    /\ UNCHANGED <<status, dbExists, blocks, lastHash, tip, blocksInTransit,
                   minerAddr, mining, msgs, now, handling>>

NextAddress == AddressValidate

SpecAddress == InitAddress /\ [][NextAddress]_vars

\* SpecUtxo: one node that mines every sendtx it is sent, each handled
\* alone, and a caller of FindSpendableOutputs on its handle.
FindSpendable(n, address, amount) ==
    /\ status[n] = "up"
    /\ last' = [op |-> "spendable", node |-> n,
                pubKeyHash |-> PubKeyHashFromAddress(address),
                amount |-> amount,
                res |-> FindSpendableOutputs(blocks[n], tip[n],
                            PubKeyHashFromAddress(address), amount)]
    /\ UNCHANGED <<status, dbExists, blocks, lastHash, tip, blocksInTransit,
                   minerAddr, mining, handling, msgs, now>>

UtxoSend ==
    \E from \in LedgerAddrs, to \in LedgerAddrs, amount \in LedgerAmounts :
        SendTx(bootstrap, from, to, amount)
UtxoSelect ==
    \E address \in LedgerAddrs, amount \in LedgerAmounts :
        FindSpendable(bootstrap, address, amount)

NextUtxo ==
    \/ LedgerCreate
    \/ LedgerStart
    \/ UtxoSend
    \/ UtxoSelect

SpecUtxo == Init /\ [][NextUtxo]_vars

\* SpecOwner: a caller of AddBlock who holds every wallet of the node and
\* edits the spend NewUTXOTransaction built for ApiFrom before handing it
\* over: the inputs carry the public key of wallet key, and the
\* transaction is signed with the private key of wallet signer.
Rekeyed(tx, key) ==
    [tx EXCEPT !.Vin = [i \in DOMAIN tx.Vin |->
                           [tx.Vin[i] EXCEPT !.PubKey = PublicKey(key)]]]

OwnerAmounts == {ApiAmount, subsidy}

OwnerSpends(st, from, to, amount, keyOrder) ==
    LET Resigned(signed) == IF signed.err # "" THEN {} ELSE {signed.tx}
        From(built) ==
            IF built.err # "" THEN {}
            ELSE UNION {Resigned(SignTransaction(st.blocks, st.tip,
                                     Rekeyed(Unsigned(built.tx), key), signer)) :
                            key \in WalletAddrs, signer \in WalletAddrs}
    IN From(NewUTXOTransaction(from, to, amount, st.blocks, st.tip, keyOrder))

OwnerAdd ==
    \E from \in WalletAddrs, amount \in OwnerAmounts :
        \E to \in WalletAddrs \ {from},
           keyOrder \in SpendKeyOrders(from, amount, blocks[bootstrap],
                                       tip[bootstrap]) :
            LET With(spends) ==
                    \E tx \in spends :
                        ApiAddBlock(bootstrap, <<CoinbaseTx(from, ""), tx>>)
            IN With(OwnerSpends(Store(bootstrap), from, to, amount, keyOrder))

NextOwner ==
    \/ ApiCreate
    \/ ApiOpen
    \/ OwnerAdd

SpecOwner == Init /\ [][NextOwner]_vars

\* SpecIter: a caller of the chain store on the bootstrap node's open
\* handle: createblockchain, AddBlock of a coinbase, PutBlock of the bytes
\* of a block message, and a walk with the iterator one Next() at a time.
\* A block message carries gob bytes that PutBlock decodes and stores under
\* the Hash field they hold; nothing recomputes that field from the header.
MaxStored == 3
IterMiner == "B"

\* Two blocks mined by a peer on a chain of its own.
IterPeerBlocks ==
    LET genesis == NewGenesisBlock(CoinbaseTx(IterMiner, "Genesis"))
    IN {genesis, NewBlock(<<CoinbaseTx(IterMiner, "")>>, genesis.Hash, 1)}

\* The block bytes a connection can deliver: a block mined on the local
\* tip, the peer's blocks, and the peer's blocks with the Hash and
\* PrevBlockHash fields written by the sender.
IterReceived(st) ==
    LET Fields(hs) ==
            {Serialize([b EXCEPT !.Hash = h, !.PrevBlockHash = p]) :
                 b \in IterPeerBlocks, h \in hs, p \in hs \cup {Nil}}
    IN {Serialize(NewBlock(<<CoinbaseTx(IterMiner, "")>>, st.l, 1))}
       \cup Fields({b.Hash : b \in IterPeerBlocks})

\* bc.PutBlock(blockData) on the open handle.
IterPutBlock(n, blockData) ==
    /\ status[n] = "up"
    /\ LET Put(st) ==
               /\ Cardinality(DOMAIN st.blocks) <= MaxStored
               /\ SetStore(n, st)
       IN Put(PutBlock(Store(n), blockData))
    /\ last' = [op |-> "putblock", node |-> n, pre |-> Store(n),
                block |-> DeserializeBlock(blockData)]
    /\ UNCHANGED <<status, dbExists, blocksInTransit, minerAddr, mining,
                   handling, msgs, now>>

\* it := bc.Iterator(): the iterator starts at the handle's tip.
IterStart(n) ==
    /\ status[n] = "up"
    /\ last' = [op |-> "iterator", node |-> n, currentHash |-> tip[n],
                visited |-> <<>>, done |-> FALSE]
    /\ UNCHANGED <<status, dbExists, blocks, lastHash, tip, blocksInTransit,
                   minerAddr, mining, handling, msgs, now>>

\* One round of the loop of BestHeight and GetBlockHashes: block :=
\* it.Next(); leave when it is nil; use the block; leave when its
\* PrevBlockHash is empty. Next returns nil for an empty currentHash and
\* for a hash the bucket does not hold, and otherwise moves currentHash to
\* the block's PrevBlockHash. visited lists the keys read so far.
IterNext(n) ==
    /\ last.op \in {"iterator", "next"}
    /\ last.node = n
    /\ ~last.done
    /\ Len(last.visited) <= Cardinality(DOMAIN blocks[n])
    /\ LET currentHash == last.currentHash
       IN IF currentHash = Nil \/ currentHash \notin DOMAIN blocks[n]
          THEN last' = [op |-> "next", node |-> n, currentHash |-> currentHash,
                        visited |-> last.visited, done |-> TRUE]
          ELSE LET Step(block) ==
                       last' = [op |-> "next", node |-> n,
                                currentHash |-> block.PrevBlockHash,
                                visited |-> Append(last.visited, currentHash),
                                done |-> block.PrevBlockHash = Nil]
               IN Step(DeserializeBlock(blocks[n][currentHash]))
    /\ UNCHANGED <<status, dbExists, blocks, lastHash, tip, blocksInTransit,
                   minerAddr, mining, handling, msgs, now>>

IterCreate == CreateBlockchain(bootstrap, ApiFrom)
IterOpen == StartServer(bootstrap, "")
IterAdd == ApiAddBlock(bootstrap, <<CoinbaseTx(ApiFrom, "")>>)
IterPut == \E blockData \in IterReceived(Store(bootstrap)) :
               IterPutBlock(bootstrap, blockData)
IterWalk == IterStart(bootstrap)
IterStep == IterNext(bootstrap)

NextIter ==
    \/ IterCreate
    \/ IterOpen
    \/ IterAdd
    \/ IterPut
    \/ IterWalk
    \/ IterStep

SpecIter == Init /\ [][NextIter]_vars

\* SpecFind: the same caller handing PutBlock only blocks that a node
\* mined, and calling FindTransaction on the store it has built.
FindReceived(st) ==
    {Serialize(NewBlock(<<CoinbaseTx(IterMiner, "")>>, st.l, 1))}
    \cup {Serialize(b) : b \in IterPeerBlocks}

FindIDs ==
    {CoinbaseTx(a, d).ID : a \in {ApiFrom, IterMiner}, d \in {"", "Genesis"}}
    \cup {WireAbsent}

\* bc.FindTransaction(ID) from bc.Iterator() to the return or the panic.
FindTx(n, ID) ==
    /\ status[n] = "up"
    /\ last' = [op |-> "find", node |-> n, ID |-> ID,
                res |-> FindTransaction(blocks[n], tip[n], ID)]
    /\ UNCHANGED <<status, dbExists, blocks, lastHash, tip, blocksInTransit,
                   minerAddr, mining, handling, msgs, now>>

FindPut == \E blockData \in FindReceived(Store(bootstrap)) :
               IterPutBlock(bootstrap, blockData)
FindLookup == \E ID \in FindIDs : FindTx(bootstrap, ID)

NextFind ==
    \/ IterCreate
    \/ IterOpen
    \/ IterAdd
    \/ FindPut
    \/ FindLookup

SpecFind == Init /\ [][NextFind]_vars

\* SpecTip: the handlers of one node that touch the handle's tip, with
\* the Update transaction of AddBlock in two steps. db.Update runs the
\* closure, which puts the block and the tip into the write transaction
\* and assigns bc.tip, and commits after the closure has returned; until
\* then a View transaction reads the bucket as it was. One Update runs at
\* a time. An entry [update |-> p] of mining is a sendtx handler whose
\* closure has returned and whose transaction has not committed.
InUpdate(n) == {q \in mining[n] : "update" \in DOMAIN q}

\* The closure of AddBlock's Update up to its return.
AddBlockWrite(n, p) ==
    /\ status[n] = "up"
    /\ p \in mining[n] \ InUpdate(n)
    /\ InUpdate(n) = {}
    /\ tip' = [tip EXCEPT ![n] = p.block.Hash]
    /\ mining' = [mining EXCEPT ![n] = (@ \ {p}) \cup {[update |-> p]}]
    /\ last' = [op |-> "addblock.write", node |-> n, pre |-> Store(n),
                block |-> p.block]
    /\ UNCHANGED <<status, dbExists, blocks, lastHash, blocksInTransit,
                   minerAddr, handling, msgs, now>>

\* The commit of that transaction, then BroadcastNewBlock and the reply.
AddBlockCommitted(n, q) ==
    /\ status[n] = "up"
    /\ q \in InUpdate(n)
    /\ SetStore(n, AddBlockCommit(Store(n), q.update.block))
    /\ mining' = [mining EXCEPT ![n] = @ \ {q}]
    /\ msgs' = BroadcastNewBlock(msgs, knownNodes, n, q.update.block.Hash)
    /\ last' = [op |-> "sendtx", node |-> n, pre |-> Store(n),
                from |-> q.update.from, to |-> q.update.to,
                amount |-> q.update.amount, inflight |-> msgs,
                block |-> q.update.block,
                reply |-> [OK |-> TRUE, Message |-> "Success!"]]
    /\ UNCHANGED <<status, dbExists, blocksInTransit, minerAddr, now, handling>>

\* bc.BestHeight() as handleVersion and StartServer call it: the walk
\* starts at bc.tip and reads the bucket in View transactions.
ReadBestHeight(n) ==
    /\ status[n] = "up"
    /\ last' = [op |-> "bestheight", node |-> n, tip |-> tip[n],
                committed |-> lastHash[n],
                height |-> BestHeight(blocks[n], tip[n])]
    /\ UNCHANGED <<status, dbExists, blocks, lastHash, tip, blocksInTransit,
                   minerAddr, mining, handling, msgs, now>>

TipMine ==
    \E from \in LedgerAddrs, to \in LedgerAddrs :
        SendTxMine(bootstrap, from, to, ApiAmount)
TipWrite == \E p \in mining[bootstrap] : AddBlockWrite(bootstrap, p)
TipCommit == \E q \in mining[bootstrap] : AddBlockCommitted(bootstrap, q)
TipPut ==
    /\ InUpdate(bootstrap) = {}
    /\ FindPut
TipHeight == ReadBestHeight(bootstrap)

NextTip ==
    \/ LedgerCreate
    \/ LedgerStart
    \/ TipMine
    \/ TipWrite
    \/ TipCommit
    \/ TipPut
    \/ TipHeight

SpecTip == Init /\ [][NextTip]_vars

\* SpecQuiet: the gossip of Spec between the bootstrap node and a peer
\* that may have created a chain of its own before it starts, with the
\* scheduling of StartServer: every accepted connection gets a goroutine,
\* so a message that was sent is handled in the end.
MaxQuietMined == 1
QuietFork == CreateBlockchain(WirePeer, IterMiner)
QuietSendTx ==
    /\ now < MaxQuietMined
    /\ OnSendTx
Handle == OnVersion \/ OnGetBlocks \/ OnInv \/ OnGetData \/ OnBlock

NextQuiet ==
    \/ Create
    \/ QuietFork
    \/ Start
    \/ OnVersion
    \/ OnGetBlocks
    \/ OnInv
    \/ OnGetData
    \/ OnBlock
    \/ QuietSendTx

SpecQuiet == Init /\ [][NextQuiet]_vars /\ WF_vars(Handle)

\* ----------------------------------------------------------------- claims
\* The node of the last step, its store after the step, and the block a
\* block message handed to PutBlock.
PutBlockDone == last.op = "block"
PostBlocks == blocks[last.node]
PostTip == lastHash[last.node]
PostHandleTip == tip[last.node]

\* C4: when the tip is non-empty and PutBlock receives a block whose
\* PrevBlockHash differs from the tip, the block is stored afterwards and
\* the tip, persisted and in memory, is what it was.
C4_LinearExtensionOnly ==
    (/\ PutBlockDone
     /\ last.pre.l # Nil
     /\ last.block.PrevBlockHash # last.pre.l)
    => /\ HasBlock(PostBlocks, last.block.Hash)
       /\ PostTip = last.pre.l
       /\ PostHandleTip = last.pre.tip

\* A new block that does not extend the non-empty tip has been put.
C4_Witness ==
    /\ PutBlockDone
    /\ last.pre.l # Nil
    /\ last.block.PrevBlockHash # last.pre.l
    /\ ~HasBlock(last.pre.blocks, last.block.Hash)

\* C5: when the tip is non-empty and PutBlock receives a block whose
\* PrevBlockHash equals the tip, the tip becomes that block's hash and
\* BestHeight grows by exactly one.
C5_ExtendingBlockAdvancesTip ==
    (/\ PutBlockDone
     /\ last.pre.l # Nil
     /\ last.block.PrevBlockHash = last.pre.l)
    => /\ PostTip = last.block.Hash
       /\ PostHandleTip = last.block.Hash
       /\ BestHeight(PostBlocks, PostHandleTip)
            = BestHeight(last.pre.blocks, last.pre.tip) + 1

\* A block extending the non-empty tip has been put.
C5_Witness ==
    /\ PutBlockDone
    /\ last.pre.l # Nil
    /\ last.block.PrevBlockHash = last.pre.l

\* C6: when the tip is empty, PutBlock adopts the hash of the block it
\* receives as the tip, whatever the block's PrevBlockHash.
C6_EmptyTipAdoptsFirstBlock ==
    (PutBlockDone /\ last.pre.l = Nil)
    => /\ PostTip = last.block.Hash
       /\ PostHandleTip = last.block.Hash

\* A store with no tip has been handed a block that is not a genesis block.
C6_Witness ==
    /\ PutBlockDone
    /\ last.pre.l = Nil
    /\ last.block.PrevBlockHash # Nil

\* C7: a PutBlock of a block whose hash is already stored leaves the block
\* map unchanged; it leaves the tip unchanged unless the block's
\* PrevBlockHash equals the current tip, and then the tip becomes the
\* block's hash.
C7_DuplicatePutKeepsBlocks ==
    (PutBlockDone /\ HasBlock(last.pre.blocks, last.block.Hash))
    => /\ PostBlocks = last.pre.blocks
       /\ last.block.PrevBlockHash = last.pre.l
            => (PostTip = last.block.Hash /\ PostHandleTip = last.block.Hash)
       /\ last.block.PrevBlockHash # last.pre.l
            => (PostTip = last.pre.l /\ PostHandleTip = last.pre.tip)

\* A stored block whose PrevBlockHash is the current tip has been put again.
C7_Witness ==
    /\ PutBlockDone
    /\ HasBlock(last.pre.blocks, last.block.Hash)
    /\ last.block.PrevBlockHash = last.pre.l
    /\ PostTip = last.block.Hash

\* C7 as the specification words it: a PutBlock of a block whose hash is
\* already stored leaves the block map and the tip unchanged.
C7_DuplicatePutIsNoOp ==
    (PutBlockDone /\ HasBlock(last.pre.blocks, last.block.Hash))
    => /\ PostBlocks = last.pre.blocks
       /\ PostTip = last.pre.l
       /\ PostHandleTip = last.pre.tip

\* C8: in every store, each stored block other than a genesis block has a
\* PrevBlockHash that is the hash of a stored block, and the walk from the
\* tip ends at a block with empty PrevBlockHash.
C8_ChainLinkage ==
    \A n \in Nodes :
        /\ \A h \in DOMAIN blocks[n] :
              DeserializeBlock(blocks[n][h]).PrevBlockHash # Nil
              => HasBlock(blocks[n], DeserializeBlock(blocks[n][h]).PrevBlockHash)
        /\ lastHash[n] # Nil => ~WalkHitsNil(blocks[n], lastHash[n])

\* C9: in every store the value under lastHashKey, when present, is the
\* hash of a block in the block map.
C9_TipIsStored ==
    \A n \in Nodes : lastHash[n] # Nil => HasBlock(blocks[n], lastHash[n])

\* AddBlock has moved the bootstrap's tip and PutBlock has just moved the
\* peer's tip to a block it stored.
C9_Witness ==
    /\ PutBlockDone
    /\ last.node # bootstrap
    /\ PostTip # last.pre.l
    /\ PostTip = last.block.Hash
    /\ BestHeight(blocks[bootstrap], lastHash[bootstrap]) > 1

\* C1: when the bootstrap and a syncing peer holding a subset of its blocks
\* are both running and no message is in flight, the peer's BestHeight and
\* tip equal the bootstrap's and both GetBlockHashes lists are the same.
C1_PeerSyncConverges ==
    \A p \in SyncPeers :
        (/\ status[bootstrap] = "up"
         /\ status[p] = "up"
         /\ msgs = EmptyBag
         /\ DOMAIN blocks[p] \subseteq DOMAIN blocks[bootstrap])
        => /\ BestHeight(blocks[p], tip[p])
                = BestHeight(blocks[bootstrap], tip[bootstrap])
           /\ tip[p] = tip[bootstrap]
           /\ GetBlockHashes(blocks[p], tip[p])
                = GetBlockHashes(blocks[bootstrap], tip[bootstrap])

\* The blocks met by the walk from a hash, oldest first.
TipChain(bm, from) == Reverse(IterBlocks(bm, from))

\* The non-coinbase inputs of a chain: block b, transaction t, input i.
SpendsOf(chain) ==
    UNION {UNION {{[b |-> b, t |-> t, i |-> i] :
                      i \in DOMAIN chain[b].Transactions[t].Vin} :
                  t \in {u \in DOMAIN chain[b].Transactions :
                            ~IsCoinbase(chain[b].Transactions[u])}} :
           b \in DOMAIN chain}

InputAt(chain, s) == chain[s.b].Transactions[s.t].Vin[s.i]

\* The value of the outputs of the chain locked to pubKeyHash that no input
\* of a later transaction references, each output counted once.
UnspentValue(bm, from, pubKeyHash) ==
    LET chain == TipChain(bm, from)
        Later(s, b, t) == s.b > b \/ (s.b = b /\ s.t > t)
        Spent(b, t, k) ==
            \E s \in SpendsOf(chain) :
                /\ Later(s, b, t)
                /\ InputAt(chain, s).Txid = chain[b].Transactions[t].ID
                /\ InputAt(chain, s).Vout = k - 1
        Worth(b, t, k) ==
            IF IsLockedWithKey(chain[b].Transactions[t].Vout[k], pubKeyHash)
               /\ ~Spent(b, t, k)
            THEN chain[b].Transactions[t].Vout[k].Value ELSE 0
    IN SeqSum(Flatten([b \in DOMAIN chain |->
          Flatten([t \in DOMAIN chain[b].Transactions |->
             [k \in DOMAIN chain[b].Transactions[t].Vout |-> Worth(b, t, k)]])]))

\* C2: the balance handleGetBalance replies for an address is the sum of
\* the values of the outputs on the tip chain locked to the address that no
\* later input references, each counted once.
C2_UTXOConsistency ==
    (last.op = "getbalance" /\ last.reply.OK)
    => last.reply.Balance
         = UnspentValue(last.pre.blocks, last.pre.tip,
                        PubKeyHashFromAddress(last.address))

\* C3: every non-coinbase input of a block on the tip chain references an
\* existing output of a transaction in an earlier block, and no other input
\* of the same transaction or of an earlier block references that output.
C3_NoDoubleSpend ==
    \A n \in Nodes :
        LET chain == TipChain(blocks[n], lastHash[n])
        IN \A s \in SpendsOf(chain) :
              /\ \E b \in 1..(s.b - 1) : \E t \in DOMAIN chain[b].Transactions :
                    /\ chain[b].Transactions[t].ID = InputAt(chain, s).Txid
                    /\ InputAt(chain, s).Vout + 1
                          \in DOMAIN chain[b].Transactions[t].Vout
              /\ \A r \in SpendsOf(chain) :
                    (r # s /\ (r.b < s.b \/ (r.b = s.b /\ r.t = s.t)))
                    => ~(/\ InputAt(chain, r).Txid = InputAt(chain, s).Txid
                         /\ InputAt(chain, r).Vout = InputAt(chain, s).Vout)

\* C10: every step of AddBlock or PutBlock that changes a non-empty tip T
\* sets the tip to a stored block whose PrevBlockHash is T, and BestHeight
\* does not decrease.
C10_TipAdvancesAlongOneChain ==
    (/\ last.op \in {"sendtx", "block"}
     /\ last.pre.l # Nil
     /\ PostTip # last.pre.l)
    => /\ HasBlock(PostBlocks, PostTip)
       /\ DeserializeBlock(PostBlocks[PostTip]).PrevBlockHash = last.pre.l
       /\ BestHeight(PostBlocks, PostTip)
            >= BestHeight(last.pre.blocks, last.pre.l)

\* C11: when AddBlock commits a block, the block's PrevBlockHash is the tip
\* that was persisted immediately before the commit.
C11_AddBlockBuildsOnCommittedTip ==
    last.op = "sendtx" => last.block.PrevBlockHash = last.pre.l

\* C13: on a chain with a genesis block, a send whose amount exceeds the
\* value of the sender's unspent outputs does not get as far as mining: it
\* is refused with "not enough funds".
C13_InsufficientFundsRefused ==
    (/\ last.op \in {"sendtx.mine", "sendtx.fail"}
     /\ last.pre.tip # Nil
     /\ last.amount > UnspentValue(last.pre.blocks, last.pre.tip,
                                   PubKeyHashFromAddress(last.from)))
    => /\ last.op = "sendtx.fail"
       /\ last.reply.Message = "not enough funds"

\* C15: immediately after createblockchain for an address on a node with no
\* chain file, BestHeight is 1, the tip is the hash of the stored genesis
\* block, which has an empty PrevBlockHash and one coinbase transaction,
\* and the balance of the address is 10 and of every other address 0.
C15_Genesis ==
    (last.op = "create" /\ last.pre.l = Nil)
    => LET bm == blocks[last.node]
           l  == lastHash[last.node]
       IN /\ BestHeight(bm, l) = 1
          /\ HasBlock(bm, l)
          /\ DeserializeBlock(bm[l]).Hash = l
          /\ DeserializeBlock(bm[l]).PrevBlockHash = Nil
          /\ Len(DeserializeBlock(bm[l]).Transactions) = 1
          /\ IsCoinbase(DeserializeBlock(bm[l]).Transactions[1])
          /\ \A a \in ValidAddrs :
                Balance(bm, l, a)
                  = [err |-> "", balance |-> IF a = last.address THEN 10 ELSE 0]

\* createblockchain for A has just run on a node that had no chain file.
C15_Witness ==
    /\ last.op = "create"
    /\ last.pre.l = Nil
    /\ last.address = "A"
    /\ dbExists[last.node]

\* C16: every RPC request a node handles leaves the node running and is
\* answered with a reply.
C16_NoPanicEscapesHandler ==
    last.op \in {"getbalance", "getbalance.panic", "sendtx", "sendtx.fail"}
    => /\ status[last.node] = "up"
       /\ "reply" \in DOMAIN last

\* C14: with no miner address set and from different from to, a successful
\* send of n that no other handler's write interleaves with adds exactly
\* one block, after which the balance of to has grown by n and the balance
\* of from has changed by 10 - n.
C14_SpendAccounting ==
    (/\ last.op = "sendtx"
     /\ minerAddr[last.node] = ""
     /\ last.from # last.to
     /\ last.block.PrevBlockHash = last.pre.l)
    => /\ DOMAIN PostBlocks = DOMAIN last.pre.blocks \cup {last.block.Hash}
       /\ ~HasBlock(last.pre.blocks, last.block.Hash)
       /\ BestHeight(PostBlocks, PostTip)
            = BestHeight(last.pre.blocks, last.pre.tip) + 1
       /\ Balance(PostBlocks, PostTip, last.to).balance
            = Balance(last.pre.blocks, last.pre.tip, last.to).balance
              + last.amount
       /\ Balance(PostBlocks, PostTip, last.from).balance
            = Balance(last.pre.blocks, last.pre.tip, last.from).balance
              + 10 - last.amount

\* A holding 10 and B holding nothing, a send of 3 from A to B has been
\* mined with the coinbase paid to A: A holds 17 and B holds 3.
C14_Witness ==
    /\ last.op = "sendtx"
    /\ minerAddr[last.node] = ""
    /\ last.from = "A" /\ last.to = "B" /\ last.amount = 3
    /\ Balance(last.pre.blocks, last.pre.tip, "A").balance = 10
    /\ Balance(last.pre.blocks, last.pre.tip, "B").balance = 0
    /\ Balance(PostBlocks, PostTip, "A").balance = 17
    /\ Balance(PostBlocks, PostTip, "B").balance = 3

\* C17: a sendtx whose mining path panics is answered with ok=false and a
\* message; no block is written, the tip is what it was and nothing is
\* sent to the peers.
C17_FailedSendLeavesNoTrace ==
    last.op = "sendtx.fail"
    => /\ last.reply.OK = FALSE
       /\ last.reply.Message # ""
       /\ PostBlocks = last.pre.blocks
       /\ PostTip = last.pre.l
       /\ PostHandleTip = last.pre.tip
       /\ msgs = last.inflight

\* A send was refused for want of funds, and another for want of a wallet,
\* on a node with a chain while a peer was listening.
C17_Witness ==
    /\ last.op = "sendtx.fail"
    /\ last.reply.Message
         \in {"not enough funds", "sender wallet not found; createwallet first"}
    /\ last.pre.l # Nil
    /\ status[RpcPeer] = "up"

\* The inv messages BroadcastNewBlock puts in flight: one to every known
\* node other than the sender that is listening.
InvsInFlight(n, hash) ==
    SetToBag({[to |-> p] @@ InvMsg(n, "block", <<hash>>) :
                 p \in {q \in Nodes \ {n} : status[q] = "up"}})

\* C18: the block of a successful sendtx holds exactly the coinbase paid to
\* the miner address, or to the sender when none was set, with one output
\* of 10, followed by the spend transaction; once it is persisted an inv
\* carrying its hash, the new tip, is in flight to every other known node
\* that listens.
C18_MinedBlockAndBroadcast ==
    last.op = "sendtx"
    => /\ Len(last.block.Transactions) = 2
       /\ last.block.Transactions[1]
            = CoinbaseTx(IF minerAddr[last.node] # "" THEN minerAddr[last.node]
                         ELSE last.from, "")
       /\ IsCoinbase(last.block.Transactions[1])
       /\ Len(last.block.Transactions[1].Vout) = 1
       /\ last.block.Transactions[1].Vout[1].Value = 10
       /\ ~IsCoinbase(last.block.Transactions[2])
       /\ last.block.Transactions[2].Vout[1]
            = [Value |-> last.amount,
               PubKeyHash |-> PubKeyHashFromAddress(last.to)]
       /\ \A i \in DOMAIN last.block.Transactions[2].Vin :
             last.block.Transactions[2].Vin[i].PubKey = PublicKey(last.from)
       /\ PostTip = last.block.Hash
       /\ HasBlock(PostBlocks, last.block.Hash)
       /\ msgs = last.inflight (+) InvsInFlight(last.node, last.block.Hash)

\* A send was mined on a node started with a miner address while a peer
\* was listening: the inv to the peer is in flight.
C18_Witness ==
    /\ last.op = "sendtx"
    /\ minerAddr[last.node] = "B"
    /\ last.from = "A"
    /\ status[RpcPeer] = "up"
    /\ BagIn([to |-> RpcPeer] @@ InvMsg(last.node, "block", <<last.block.Hash>>),
             msgs)

\* C19 (as stated): every transaction returned by CoinbaseTx or
\* NewUTXOTransaction, signatures included, has ID = Hash(tx), the hash of
\* its serialization with the ID emptied.
C19_IdIsHashOfReturnedTx ==
    last.op = "sendtx"
    => \A i \in DOMAIN last.block.Transactions :
          last.block.Transactions[i].ID = Hash(last.block.Transactions[i])

\* C19 (amended): every transaction returned by CoinbaseTx or
\* NewUTXOTransaction has for ID the hash of its unsigned shape, the
\* serialization with the ID and every input signature emptied; a coinbase
\* carries no signature, so its ID is the hash of the transaction with the
\* ID emptied.
C19_IdIsHashOfUnsignedShape ==
    last.op = "sendtx"
    => \A i \in DOMAIN last.block.Transactions :
          /\ last.block.Transactions[i].ID
               = Hash(Unsigned(last.block.Transactions[i]))
          /\ IsCoinbase(last.block.Transactions[i])
               => last.block.Transactions[i].ID
                    = Hash(last.block.Transactions[i])

\* A signed spend was mined whose ID is the hash of its unsigned shape and
\* not the hash of the transaction as returned.
C19_Witness ==
    /\ last.op = "sendtx"
    /\ \E i \in DOMAIN last.block.Transactions :
          /\ ~IsCoinbase(last.block.Transactions[i])
          /\ last.block.Transactions[i].Vin[1].Signature # Nil
          /\ last.block.Transactions[i].ID
               = Hash(Unsigned(last.block.Transactions[i]))
          /\ last.block.Transactions[i].ID # Hash(last.block.Transactions[i])

\* The first transaction of a list that VerifyTransaction does not pass
\* over the store st, 0 when all pass.
FirstRejected(st, transactions) ==
    LET bad == {i \in DOMAIN transactions :
                   LET v == VerifyTransaction(st.blocks, st.tip, transactions[i])
                   IN v.err # "" \/ ~v.ok}
    IN IF bad = {} THEN 0 ELSE CHOOSE i \in bad : \A j \in bad : i <= j

\* C12: AddBlock given a list one of whose transactions does not pass
\* VerifyTransaction ends in a panic and writes nothing: the stored blocks,
\* the value under lastHashKey and the handle's tip are what they were.
\* The panic is "invalid transaction" when the first such transaction made
\* VerifyTransaction return false, and the panic of VerifyTransaction
\* itself when its previous transaction was not found.
C12_AddBlockRejectsUnverified ==
    (/\ last.op = "addblock"
     /\ FirstRejected(last.pre, last.transactions) # 0)
    => /\ last.err # ""
       /\ PostBlocks = last.pre.blocks
       /\ PostTip = last.pre.l
       /\ PostHandleTip = last.pre.tip
       /\ now \in 0..MaxMined
       /\ LET v == VerifyTransaction(last.pre.blocks, last.pre.tip,
                      last.transactions[FirstRejected(last.pre,
                                                      last.transactions)])
          IN IF v.err = "" THEN last.err = "invalid transaction"
             ELSE last.err = v.err

\* AddBlock was handed a coinbase followed by a spend signed with another
\* wallet's key, over a chain that holds the output spent, and refused it.
C12_Witness ==
    /\ last.op = "addblock"
    /\ last.err = "invalid transaction"
    /\ last.pre.l # Nil
    /\ IsCoinbase(last.transactions[1])
    /\ last.transactions[2].Vin[1].Signature # Nil
    /\ FirstRejected(last.pre, last.transactions) = 2

\* C20: Sign writes the Signature of the inputs of tx and nothing else:
\* the ID, every input's Txid, Vout and PubKey and every output are after
\* the call what they were before, and a coinbase is left as it was.
C20_SignWritesOnlySignatures ==
    last.op = "sign"
    => /\ last.res.tx.ID = last.tx.ID
       /\ last.res.tx.Vout = last.tx.Vout
       /\ DOMAIN last.res.tx.Vin = DOMAIN last.tx.Vin
       /\ \A i \in DOMAIN last.tx.Vin :
             /\ last.res.tx.Vin[i].Txid = last.tx.Vin[i].Txid
             /\ last.res.tx.Vin[i].Vout = last.tx.Vin[i].Vout
             /\ last.res.tx.Vin[i].PubKey = last.tx.Vin[i].PubKey
       /\ IsCoinbase(last.tx) => last.res.tx = last.tx

\* An unsigned spend was signed: its inputs now carry signatures.
C20_Witness ==
    /\ last.op = "sign"
    /\ ~last.res.panic
    /\ ~IsCoinbase(last.tx)
    /\ last.tx.Vin[1].Signature = Nil
    /\ last.res.tx.Vin[1].Signature # Nil
    /\ last.res.tx.ID = last.tx.ID

\* C21: a transaction that is no coinbase, whose inputs all carry the
\* public key of the signing wallet, signed over a prevTXs map that holds
\* every transaction it references, passes Verify over the same map.
C21_SignVerifyRoundTrip ==
    (/\ last.op = "sign"
     /\ ~IsCoinbase(last.tx)
     /\ \A i \in DOMAIN last.tx.Vin :
           last.tx.Vin[i].PubKey = PublicKey(last.signer)
     /\ ~PrevMissing(last.tx, last.prevTXs))
    => /\ ~last.res.panic
       /\ Verify(last.res.tx, last.prevTXs) = [panic |-> FALSE, ok |-> TRUE]

\* An unsigned spend of a stored output was signed by the wallet whose key
\* its inputs carry, and beforehand it did not pass Verify.
C21_Witness ==
    /\ last.op = "sign"
    /\ ~IsCoinbase(last.tx)
    /\ last.tx.Vin[1].Signature = Nil
    /\ \A i \in DOMAIN last.tx.Vin :
          last.tx.Vin[i].PubKey = PublicKey(last.signer)
    /\ ~PrevMissing(last.tx, last.prevTXs)
    /\ ~Verify(last.tx, last.prevTXs).ok
    /\ Verify(last.res.tx, last.prevTXs).ok

\* C22: the Merkle tree over an empty list of transaction ids has for root
\* SHA-256 of the empty byte string, applied once.
C22_EmptyTreeRoot ==
    (last.op = "merkle" /\ last.data = <<>>) => last.root = SHA256(Nil)

\* The reference aggregation: a level of odd length pairs its last node
\* with itself, an inner node is SHA-256(left || right), and the root is
\* what is left when one node remains.
RECURSIVE RefMerkleRoot(_)
RefMerkleRoot(level) ==
    IF Len(level) = 1 THEN level[1]
    ELSE RefMerkleRoot([i \in 1..((Len(level) + 1) \div 2) |->
             SHA256([l |-> level[2 * i - 1],
                     r |-> level[IF 2 * i <= Len(level) THEN 2 * i
                                 ELSE Len(level)]])])

RefMerkle(ids) == RefMerkleRoot([i \in DOMAIN ids |-> SHA256(ids[i])])

\* C23: the MerkleRoot of a block built by NewBlock or NewGenesisBlock over
\* a non-empty list of transactions, and the root NewMerkleTree gives for
\* their ids, is the reference aggregation of the ids in order; for one
\* transaction it is SHA-256 of its id.
C23_MerkleRootIsReference ==
    /\ (last.op = "newblock" /\ last.transactions # <<>>)
       => /\ last.block.Transactions = last.transactions
          /\ last.block.MerkleRoot
               = RefMerkle([i \in DOMAIN last.transactions |->
                               last.transactions[i].ID])
          /\ Len(last.transactions) = 1
               => last.block.MerkleRoot = SHA256(last.transactions[1].ID)
    /\ (last.op = "merkle" /\ last.data # <<>>)
       => last.root = RefMerkle(last.data)

\* A block was built over three transactions, two of them different: the
\* second level pairs the third leaf with itself.
C23_Witness ==
    /\ last.op = "newblock"
    /\ Len(last.transactions) = 3
    /\ last.transactions[1] # last.transactions[2]
    /\ last.block.MerkleRoot
         = SHA256([l |-> SHA256([l |-> SHA256(last.transactions[1].ID),
                                 r |-> SHA256(last.transactions[2].ID)]),
                   r |-> SHA256([l |-> SHA256(last.transactions[3].ID),
                                 r |-> SHA256(last.transactions[3].ID)])])

\* C24: ValidateAddress accepts a string only if it decodes to at least
\* 1 + 20 + 4 bytes whose last 4 are the checksum of the bytes before
\* them, so that the key hash of an accepted address is 20 bytes long.
C24_ValidAddressIsLongEnough ==
    (last.op = "validate" /\ last.valid)
    => /\ last.decoded # Nil
       /\ Len(last.decoded) >= 1 + pubKeyHashLen + addressChecksumLen
       /\ SubSeq(last.decoded, Len(last.decoded) - addressChecksumLen + 1,
                 Len(last.decoded))
            = Checksum(SubSeq(last.decoded, 1,
                              Len(last.decoded) - addressChecksumLen))
       /\ Len(last.pubKeyHash) = pubKeyHashLen

\* What one send to addr leaves in flight: the message when addr listens,
\* nothing when the dial fails.
OneSent(addr, msg) ==
    IF status[addr] = "up" THEN SetToBag({[to |-> addr] @@ msg}) ELSE EmptyBag

\* The messages in flight before the last handler ran, less the one it read.
Unanswered == last.inflight (-) SetToBag({last.msg})

StoreUntouched ==
    /\ PostBlocks = last.pre.blocks
    /\ PostTip = last.pre.l
    /\ PostHandleTip = last.pre.tip

\* C26: a node of height h that reads version{BestHeight = r, AddrFrom}
\* sends one getblocks to AddrFrom when h < r, one version carrying h to
\* AddrFrom when h > r and nothing when h = r; its store and its
\* blocksInTransit are what they were.
C26_VersionReply ==
    last.op = "version"
    => LET h == BestHeight(last.pre.blocks, last.pre.tip)
           r == last.msg.Payload.BestHeight
           from == last.msg.Payload.AddrFrom
       IN /\ msgs = Unanswered (+)
                    (IF h < r
                     THEN OneSent(from, [Command |-> "getblocks",
                                         Payload |-> [AddrFrom |-> last.node]])
                     ELSE IF h > r
                     THEN OneSent(from, [Command |-> "version",
                                         Payload |-> [Version |-> 1,
                                                      BestHeight |-> h,
                                                      AddrFrom |-> last.node]])
                     ELSE EmptyBag)
          /\ StoreUntouched
          /\ blocksInTransit[last.node] = last.transit

\* A node read the version of a higher sender that listens: its getblocks
\* is in flight.
C26_Witness ==
    /\ last.op = "version"
    /\ BestHeight(last.pre.blocks, last.pre.tip) < last.msg.Payload.BestHeight
    /\ BagIn([to |-> last.msg.Payload.AddrFrom, Command |-> "getblocks",
              Payload |-> [AddrFrom |-> last.node]], msgs)

\* C27: a node that reads inv{Type, Items} of a type other than "block"
\* changes and sends nothing; otherwise its blocksInTransit becomes the
\* items it does not hold, in the order announced, whatever the queue held
\* before; when there are such items one getdata for the first goes to the
\* inv's sender and that hash leaves the queue, when there are none nothing
\* is sent.
C27_InvReply ==
    [][last'.op = "inv"
       => LET n == last'.node
              payload == last'.msg.Payload
              missing == SelectSeq(payload.Items,
                                   LAMBDA h : h \notin DOMAIN blocks[n])
              rest == msgs (-) SetToBag({last'.msg})
          IN /\ blocks' = blocks /\ lastHash' = lastHash /\ tip' = tip
             /\ \A p \in Nodes \ {n} : blocksInTransit'[p] = blocksInTransit[p]
             /\ IF payload.Type # "block"
                THEN /\ blocksInTransit' = blocksInTransit
                     /\ msgs' = rest
                ELSE IF missing = <<>>
                THEN /\ blocksInTransit'[n] = <<>>
                     /\ msgs' = rest
                ELSE /\ blocksInTransit'[n] = Tail(missing)
                     /\ msgs' = rest (+)
                          (IF status[payload.AddrFrom] = "up"
                           THEN SetToBag({[to |-> payload.AddrFrom,
                                           Command |-> "getdata",
                                           Payload |-> [AddrFrom |-> n,
                                                        Type |-> "block",
                                                        ID |-> missing[1]]]})
                           ELSE EmptyBag)]_vars

\* A node read an inv of two blocks it did not hold: the getdata for the
\* first is in flight and the second waits in the queue.
C27_Witness ==
    /\ last.op = "inv"
    /\ last.msg.Payload.Type = "block"
    /\ Len(last.msg.Payload.Items) = 2
    /\ blocksInTransit[last.node] = <<last.msg.Payload.Items[2]>>
    /\ BagIn([to |-> last.msg.Payload.AddrFrom, Command |-> "getdata",
              Payload |-> [AddrFrom |-> last.node, Type |-> "block",
                           ID |-> last.msg.Payload.Items[1]]], msgs)

\* C28: a node that reads block{Block} applies PutBlock to it; then, with
\* a non-empty blocksInTransit, it takes the head off the queue and sends
\* one getdata for it to the sender of the block and no version; with an
\* empty queue a node other than the bootstrap sends one version, carrying
\* its height after the put, to the bootstrap, and the bootstrap sends
\* nothing.
C28_BlockReply ==
    last.op = "block"
    => LET n == last.node
           from == last.msg.Payload.AddrFrom
           st == PutBlock(last.pre, last.msg.Payload.Block)
       IN /\ PostBlocks = st.blocks
          /\ PostTip = st.l
          /\ PostHandleTip = st.tip
          /\ IF last.transit # <<>>
             THEN /\ blocksInTransit[n] = Tail(last.transit)
                  /\ msgs = Unanswered (+)
                            OneSent(from, [Command |-> "getdata",
                                           Payload |-> [AddrFrom |-> n,
                                                        Type |-> "block",
                                                        ID |-> Head(last.transit)]])
             ELSE /\ blocksInTransit[n] = <<>>
                  /\ msgs = Unanswered (+)
                            (IF n # knownNodes[1]
                             THEN OneSent(knownNodes[1],
                                     [Command |-> "version",
                                      Payload |-> [Version |-> 1,
                                                   BestHeight |->
                                                       BestHeight(st.blocks, st.tip),
                                                   AddrFrom |-> n]])
                             ELSE EmptyBag)

\* A node read a block while another hash waited in its queue: the getdata
\* for that hash is in flight to the sender of the block.
C28_Witness ==
    /\ last.op = "block"
    /\ last.transit # <<>>
    /\ HasBlock(PostBlocks, last.block.Hash)
    /\ BagIn([to |-> last.msg.Payload.AddrFrom, Command |-> "getdata",
              Payload |-> [AddrFrom |-> last.node, Type |-> "block",
                           ID |-> Head(last.transit)]], msgs)

\* C29: a node that reads getdata{Type, ID, AddrFrom} sends one block
\* message with the stored bytes of ID to AddrFrom when Type is "block"
\* and it holds ID, and nothing otherwise; its store and its queue are
\* what they were.
C29_GetDataReply ==
    last.op = "getdata"
    => LET payload == last.msg.Payload
       IN /\ msgs = Unanswered (+)
                    (IF payload.Type = "block"
                        /\ payload.ID \in DOMAIN last.pre.blocks
                     THEN OneSent(payload.AddrFrom,
                                  [Command |-> "block",
                                   Payload |-> [AddrFrom |-> last.node,
                                                Block |-> last.pre.blocks[payload.ID]]])
                     ELSE EmptyBag)
          /\ StoreUntouched
          /\ blocksInTransit[last.node] = last.transit

\* A node read a getdata for a block it holds: the block is in flight to
\* the asker.
C29_Witness ==
    /\ last.op = "getdata"
    /\ last.msg.Payload.Type = "block"
    /\ last.msg.Payload.ID \in DOMAIN last.pre.blocks
    /\ BagIn([to |-> last.msg.Payload.AddrFrom, Command |-> "block",
              Payload |-> [AddrFrom |-> last.node,
                           Block |-> last.pre.blocks[last.msg.Payload.ID]]], msgs)

\* The hashes met from hash h by following PrevBlockHash through the
\* stored blocks, h first.
RECURSIVE Ancestry(_, _)
Ancestry(bm, h) ==
    IF h = Nil \/ h \notin DOMAIN bm THEN <<>>
    ELSE <<h>> \o Ancestry(bm, bm[h].gob.PrevBlockHash)

C25_QueuePopIsAtomic ==
    last.op \in {"block.pop", "block.pop.panic"}
    => /\ last.op = "block.pop"
       /\ last.transit # <<>>
       /\ last.next = Head(last.transit)

\* C31: a walk from the tip with the iterator reads every block at most
\* once, in every store that createblockchain, AddBlock and PutBlock of
\* received block bytes can build.
C31_WalkVisitsEachBlockOnce ==
    last.op = "next"
    => \A i, j \in DOMAIN last.visited :
           last.visited[i] = last.visited[j] => i = j

\* C32: FindTransaction returns the first transaction with the wanted ID
\* met from the tip towards the genesis block, and returns the error
\* "transaction not found" as a value when no block of the tip chain holds
\* one, whatever the walk ends at.
C32_FindReturnsFirstOrNotFound ==
    last.op = "find"
    => LET walk == Reverse(TipChain(blocks[last.node], tip[last.node]))
           txs  == Flatten([i \in DOMAIN walk |-> walk[i].Transactions])
           hits == {i \in DOMAIN txs : txs[i].ID = last.ID}
       IN IF hits = {}
          THEN last.res.err = "transaction not found"
          ELSE /\ last.res.err = ""
               /\ \E i \in hits : /\ \A j \in hits : i <= j
                                   /\ last.res.tx = txs[i]

\* C33: a transaction that AddBlock accepts carries, in every input, a
\* public key whose hash is the PubKeyHash of the output the input
\* references.
C33_AcceptedSpendsOwnOutputs ==
    (last.op = "addblock" /\ last.err = "")
    => \A t \in DOMAIN last.transactions :
          LET tx == last.transactions[t]
              Locked(in) ==
                  FindTransaction(last.pre.blocks, last.pre.tip, in.Txid)
                      .tx.Vout[in.Vout + 1].PubKeyHash
          IN IsCoinbase(tx)
             \/ \A i \in DOMAIN tx.Vin :
                    HashPubKey(tx.Vin[i].PubKey) = Locked(tx.Vin[i])

\* The output outIdx of a transaction txID of the chain is locked to
\* pubKeyHash and no input of a later transaction references it.
UnspentAt(chain, pubKeyHash, txID, outIdx) ==
    \E b \in DOMAIN chain : \E t \in DOMAIN chain[b].Transactions :
        LET tx == chain[b].Transactions[t]
        IN /\ HexEncode(tx.ID) = txID
           /\ outIdx + 1 \in DOMAIN tx.Vout
           /\ IsLockedWithKey(tx.Vout[outIdx + 1], pubKeyHash)
           /\ ~\E s \in SpendsOf(chain) :
                  /\ s.b > b \/ (s.b = b /\ s.t > t)
                  /\ InputAt(chain, s).Txid = tx.ID
                  /\ InputAt(chain, s).Vout = outIdx

\* The value of output outIdx of the transaction txID of the chain.
ValueAt(chain, txID, outIdx) ==
    LET at == CHOOSE c \in {<<b, t>> : b \in DOMAIN chain, t \in 1..2} :
                  /\ c[2] \in DOMAIN chain[c[1]].Transactions
                  /\ HexEncode(chain[c[1]].Transactions[c[2]].ID) = txID
    IN chain[at[1]].Transactions[at[2]].Vout[outIdx + 1].Value

\* C34: the selection FindSpendableOutputs returns holds no (transaction,
\* output index) pair twice, every selected output is locked to the key and
\* unspent on the tip chain, and accumulated is the sum of their values.
C34_SelectionIsSound ==
    (last.op = "spendable" /\ last.res.err = "")
    => LET chain == TipChain(blocks[last.node], tip[last.node])
           outs  == last.res.outs
           order == CHOOSE o \in KeyOrders(outs) : TRUE
       IN /\ \A k \in DOMAIN outs : \A i, j \in DOMAIN outs[k] :
                 outs[k][i] = outs[k][j] => i = j
          /\ \A k \in DOMAIN outs : \A i \in DOMAIN outs[k] :
                 UnspentAt(chain, last.pubKeyHash, k, outs[k][i])
          /\ last.res.acc =
                 SeqSum(Flatten([o \in DOMAIN order |->
                     [i \in DOMAIN outs[order[o]] |->
                         ValueAt(chain, order[o], outs[order[o]][i])]]))

\* The total value of the outputs of the chain that the references in
\* refs, pairs of transaction id and output index, name.
RECURSIVE SumRefs(_, _)
SumRefs(chain, refs) ==
    IF refs = {} THEN 0
    ELSE LET r == CHOOSE x \in refs : TRUE
         IN ValueAt(chain, HexEncode(r[1]), r[2]) + SumRefs(chain, refs \ {r})

\* C35: the outputs of the transaction a successful sendtx built are worth
\* what the distinct outputs its inputs reference are worth, and afterwards
\* the unspent outputs of the tip chain are worth subsidy times BestHeight.
C35_ValueIsConserved ==
    last.op = "sendtx"
    => LET spend == last.block.Transactions[2]
           refs  == {<<spend.Vin[i].Txid, spend.Vin[i].Vout>> :
                        i \in DOMAIN spend.Vin}
           Worth(values) == SeqSum(values)
       IN /\ Worth([k \in DOMAIN spend.Vout |-> spend.Vout[k].Value])
               = SumRefs(TipChain(last.pre.blocks, last.pre.tip), refs)
          /\ Worth([i \in 1..Len(<<"A", "B">>) |->
                     UnspentValue(PostBlocks, PostTip,
                                  PubKeyHashFromAddress(<<"A", "B">>[i]))])
               = subsidy * BestHeight(PostBlocks, PostTip)

\* C36: whenever a handler of a running node calls BestHeight, the tip of
\* the handle is the value committed under lastHashKey, and the height
\* returned is the length of the chain from that value.
C36_WalkStartsAtCommittedTip ==
    last.op = "bestheight"
    => /\ last.tip = last.committed
       /\ last.height = Len(TipChain(blocks[last.node], last.committed))

\* C37: once no node starts and no block is mined any more, the exchange
\* of version, getblocks, inv, getdata and block messages comes to an end:
\* from some moment on no message is in flight.
C37_GossipQuiesces == <>[](msgs = EmptyBag)

\* No message is in flight after the peer, on a chain of its own, has
\* fetched the blocks of the bootstrap node, announced its version again,
\* been sent the same inventory again and asked for nothing; the two tips
\* differ.
C37_Witness ==
    /\ msgs = EmptyBag
    /\ last.op = "inv"
    /\ last.node = WirePeer
    /\ Cardinality(DOMAIN blocks[WirePeer]) >= 3
    /\ tip[WirePeer] # tip[bootstrap]

====
